---------------------------- MODULE Spec2Model ----------------------------
(***************************************************************************)
(* A model of the dataset / aggregation engine of dnsmag                   *)
(* (icann/dns-magnitude-hll): domain and address normalisation, the        *)
(* per-dataset statistics, the aggregator, magnitude ranking and           *)
(* truncation, the chunked collector and the CBOR sequence reader.         *)
(*                                                                         *)
(* Abstractions (all of external libraries, none of repository code):      *)
(*  - a HyperLogLog estimator (segmentio/go-hll) is its settings plus the  *)
(*    set of raw hashes added to it; Cardinality is that set's size and    *)
(*    StrictUnion is set union, refused when the settings differ;          *)
(*  - xxh3 is an injective function of the 16 hashed bytes;                *)
(*  - an encoded dataset is a sequence of tokens (a map header carrying    *)
(*    the pair count, then one token per pair), which keeps CBOR's         *)
(*    property that no proper prefix of an item is an item;                *)
(*  - the random dataset identifier and the generator label are left out;  *)
(*  - uint64 counters are unbounded naturals (the model's counts stay far  *)
(*    below 2^64).                                                         *)
(***************************************************************************)
EXTENDS Integers, Sequences, FiniteSets, TLC

VARIABLES
    col,      \* the Collector (its fields), or Unused
    colPc,    \* "collecting" | "done" | "failed" | "unused"
    hist,     \* ghost history of the collector run
    aggIn,    \* the argument of the last AggregateDatasets call
    aggOut,   \* what that call returned: [ds, err]
    seq,      \* the DatasetSequence (its fields), or Unused
    rd,       \* LoadDNSMagSequenceFromReader's locals and the reader's stream
    tr,       \* a Truncate / SortedByMagnitude call: its input and its result
    gdn,      \* a getDomainName call: its arguments and its result
    runs      \* two dataset runs on records that differ in their addresses

vars == <<col, colPc, hist, aggIn, aggOut, seq, rd, tr, gdn, runs>>

Unused == [unused |-> TRUE]

Nil == [nil |-> TRUE]

\* a nil error
NoError == [kind |-> "none"]

---------------------------------------------------------------------------
(* Bounds of the model *)

MaxRecords == 3

MaxChunk == 2

MaxTop == 1

---------------------------------------------------------------------------
(* Characters and strings.  A Go string is a sequence of one-character     *)
(* strings; CharCode is the byte value that Go's string comparison uses.   *)

LowerSeq == <<"a","b","c","d","e","f","g","h","i","j","k","l","m",
              "n","o","p","q","r","s","t","u","v","w","x","y","z">>

UpperSeq == <<"A","B","C","D","E","F","G","H","I","J","K","L","M",
              "N","O","P","Q","R","S","T","U","V","W","X","Y","Z">>

DigitSeq == <<"0","1","2","3","4","5","6","7","8","9">>

SeqRange(s) == { s[i] : i \in 1..Len(s) }

IndexIn(s, c) == CHOOSE i \in 1..Len(s) : s[i] = c

CharCode(c) ==
    IF c = "-" THEN 45
    ELSE IF c = "." THEN 46
    ELSE IF c \in SeqRange(DigitSeq) THEN 47 + IndexIn(DigitSeq, c)
    ELSE IF c \in SeqRange(UpperSeq) THEN 64 + IndexIn(UpperSeq, c)
    ELSE IF c = "_" THEN 95
    ELSE IF c \in SeqRange(LowerSeq) THEN 96 + IndexIn(LowerSeq, c)
    ELSE 0

\* a < b for Go strings: bytewise lexicographic
RECURSIVE StrLess(_, _)
StrLess(a, b) ==
    IF b = <<>> THEN FALSE
    ELSE IF a = <<>> THEN TRUE
    ELSE IF CharCode(Head(a)) # CharCode(Head(b))
         THEN CharCode(Head(a)) < CharCode(Head(b))
    ELSE StrLess(Tail(a), Tail(b))

\* strings.ToLower
ToLowerChar(c) ==
    IF c \in SeqRange(UpperSeq) THEN LowerSeq[IndexIn(UpperSeq, c)] ELSE c

ToLower(s) == [i \in 1..Len(s) |-> ToLowerChar(s[i])]

\* the positions of the dots of a string
DotsIn(s) == { i \in 1..Len(s) : s[i] = "." }

\* strings.Split(name, "."): the texts before, between and after the dots,
\* always at least one (possibly empty) label
Split(s) ==
    LET dots   == DotsIn(s)
        pos(k) == IF k = 0 THEN 0
                  ELSE IF k > Cardinality(dots) THEN Len(s) + 1
                  ELSE CHOOSE i \in dots : Cardinality({ j \in dots : j < i }) = k - 1
    IN  [k \in 1..(Cardinality(dots) + 1) |-> SubSeq(s, pos(k - 1) + 1, pos(k) - 1)]

\* strings.Join(labels, ".")
RECURSIVE Join(_)
Join(labels) ==
    IF Len(labels) = 0 THEN <<>>
    ELSE IF Len(labels) = 1 THEN labels[1]
    ELSE labels[1] \o <<".">> \o Join(Tail(labels))

---------------------------------------------------------------------------
(* Domain normaliser *)

DefaultDNSDomainNameLabels == 1

\* ^(?:[a-z]{2,63}|xn--[a-z0-9-]{1,59})$
domainNameRegex(tld) ==
    \/ /\ Len(tld) >= 2
       /\ Len(tld) <= 63
       /\ \A i \in 1..Len(tld) : tld[i] \in SeqRange(LowerSeq)
    \/ /\ Len(tld) >= 5
       /\ Len(tld) <= 63
       /\ SubSeq(tld, 1, 4) = <<"x","n","-","-">>
       /\ \A i \in 5..Len(tld) :
             tld[i] \in SeqRange(LowerSeq) \cup SeqRange(DigitSeq) \cup {"-"}

\* getDomainName returning the first numLabels labels, not the last
getDomainName_FirstLabels(name, numLabels) ==
    IF Len(name) = 0 \/ name = <<".">>
    THEN [name |-> <<".">>, err |-> NoError]
    ELSE LET lower    == ToLower(name)
             stripped == IF lower[Len(lower)] = "."
                         THEN SubSeq(lower, 1, Len(lower) - 1)
                         ELSE lower
             split    == Split(stripped)
             idx      == Len(split) - numLabels
             tld      == split[Len(split)]
         IN  IF idx < 0
             THEN [name |-> <<>>, err |-> [kind |-> "too few labels"]]
             ELSE IF ~domainNameRegex(tld)
             THEN [name |-> <<>>, err |-> [kind |-> "tld does not match"]]
             ELSE [name |-> Join(SubSeq(split, 1, numLabels)), err |-> NoError]

\* getDomainName returns [name, err]; err is NoError when there is none
getDomainName(name, numLabels) ==
    IF Len(name) = 0 \/ name = <<".">>
    THEN [name |-> <<".">>, err |-> NoError]
    ELSE LET lower    == ToLower(name)
             stripped == IF lower[Len(lower)] = "."
                         THEN SubSeq(lower, 1, Len(lower) - 1)
                         ELSE lower
             split    == Split(stripped)
             idx      == Len(split) - numLabels
             tld      == split[Len(split)]
         IN  IF idx < 0
             THEN [name |-> <<>>, err |-> [kind |-> "too few labels"]]
             ELSE IF ~domainNameRegex(tld)
             THEN [name |-> <<>>, err |-> [kind |-> "tld does not match"]]
             ELSE [name |-> Join(SubSeq(split, idx + 1, Len(split))), err |-> NoError]

---------------------------------------------------------------------------
(* Address normaliser.  An address is <<family, network, host>>: network   *)
(* stands for the first 24 (IPv4) or 48 (IPv6) bits, host for the rest.    *)

\* netip.Addr.Prefix(mask).Addr() for the default masks (/24, /48): the host
\* bits are zeroed
TruncateAddr(addr) == <<addr[1], addr[2], 0>>

\* truncated.As16(): an IPv4 address becomes an IPv4-mapped IPv6 address
As16(addr) == IF addr[1] = 4 THEN <<"::ffff", addr[2], addr[3]>>
              ELSE <<"v6", addr[2], addr[3]>>

\* xxh3.Hash over the 16 bytes (injective on the model's addresses)
Xxh3(bytes) == <<"xxh3", bytes>>

newIPAddress(addr) ==
    LET truncated == TruncateAddr(addr)
        hashInput == As16(truncated)
    IN  [ipAddress |-> addr, truncatedIP |-> truncated,
         hashInput |-> hashInput, hash |-> Xxh3(hashInput)]

Is6(addr) == addr[1] = 6

---------------------------------------------------------------------------
(* Cardinality estimator *)

DefaultSettings == "log2m14-regwidth5"

\* &hll.Hll{}: an estimator with the default settings and nothing added
NewHll == [settings |-> DefaultSettings, regs |-> {}]

AddRaw(h, hash) == [h EXCEPT !.regs = @ \cup {hash}]

HllCardinality(h) == Cardinality(h.regs)

\* StrictUnion: refused unless both estimators have the same settings
StrictUnionOk(h, other) == h.settings = other.settings

StrictUnion(h, other) == [h EXCEPT !.regs = @ \cup other.regs]

---------------------------------------------------------------------------
(* Dataset.  Time is [day, tod]: the UTC day and a time of day (0 is       *)
(* midnight).  Domains is a function from the domain names present to      *)
(* their domainData.                                                       *)

\* time.Now().UTC() as the model sees it
Now == [day |-> 1, tod |-> 1]

\* time.Date(y, m, d, 0, 0, 0, 0, UTC)
DateOnly(t) == [day |-> t.day, tod |-> 0]

\* MagnitudeDataset.SetDate
SetDate(dataset, date) ==
    LET d == IF date = Nil THEN Now ELSE date
    IN  [dataset EXCEPT !.Date = DateOnly(d)]

EmptyMap == [x \in {} |-> Nil]

newDataset(date) ==
    SetDate([Version             |-> 1,
             Date                |-> Nil,
             AllClientsHll       |-> NewHll,
             AllClientsCount     |-> 0,
             AllQueriesCount     |-> 0,
             Domains             |-> EmptyMap,
             extraAllClients     |-> {},
             extraV6Clients      |-> {},
             extraAllDomains     |-> {},
             extraSourceFilename |-> <<>>], date)

\* MagnitudeDataset{}: the zero value returned beside an error
ZeroDataset ==
    [Version             |-> 0,
     Date                |-> Nil,
     AllClientsHll       |-> Nil,
     AllClientsCount     |-> 0,
     AllQueriesCount     |-> 0,
     Domains             |-> EmptyMap,
     extraAllClients     |-> {},
     extraV6Clients      |-> {},
     extraAllDomains     |-> {},
     extraSourceFilename |-> <<>>]

newDomain ==
    [Hll |-> NewHll, ClientsCount |-> 0, QueriesCount |-> 0, extraAllClients |-> {}]

\* dataset.Date.Format(time.DateOnly): the day, as text
DateString(dataset) == <<"date", dataset.Date.day>>

\* dataset.Domains[name] = value
PutDomain(domains, name, value) ==
    [d \in DOMAIN domains \cup {name} |-> IF d = name THEN value ELSE domains[d]]

\* updateStats giving the root a per-domain record like any other name
updateStats_CountsRoot(dataset, domainStr, src, queryCount, verbose) ==
    IF queryCount = 0 THEN [ds |-> dataset, err |-> NoError]
    ELSE
    LET d1 == [dataset EXCEPT !.AllQueriesCount = @ + queryCount,
                              !.AllClientsHll = AddRaw(@, src.hash)]
        dn == getDomainName(domainStr, DefaultDNSDomainNameLabels)
    IN  IF dn.err # NoError THEN [ds |-> d1, err |-> [kind |-> "invalid domain name"]]
        ELSE
        LET domain == IF dn.name \in DOMAIN d1.Domains THEN d1.Domains[dn.name] ELSE newDomain
            dom2   == [domain EXCEPT !.QueriesCount = @ + queryCount,
                                     !.Hll = AddRaw(@, src.hash)]
        IN  [ds |-> [d1 EXCEPT !.Domains = PutDomain(@, dn.name, dom2)], err |-> NoError]

\* updateStats validating the domain before it counts anything
updateStats_ValidatesFirst(dataset, domainStr, src, queryCount, verbose) ==
    IF queryCount = 0 THEN [ds |-> dataset, err |-> NoError]
    ELSE
    LET dn == getDomainName(domainStr, DefaultDNSDomainNameLabels)
        d1 == [dataset EXCEPT !.AllQueriesCount = @ + queryCount,
                              !.AllClientsHll = AddRaw(@, src.hash)]
        d2 == IF verbose
              THEN [d1 EXCEPT !.extraAllClients = @ \cup {src.truncatedIP},
                              !.extraV6Clients =
                                  IF Is6(src.ipAddress) THEN @ \cup {src.truncatedIP} ELSE @]
              ELSE d1
    IN  IF dn.err # NoError THEN [ds |-> dataset, err |-> [kind |-> "invalid domain name"]]
        ELSE IF dn.name = <<".">> THEN [ds |-> d2, err |-> NoError]
        ELSE
        LET d3     == IF verbose
                      THEN [d2 EXCEPT !.extraAllDomains = @ \cup {dn.name}]
                      ELSE d2
            domain == IF dn.name \in DOMAIN d3.Domains THEN d3.Domains[dn.name] ELSE newDomain
            dom1   == IF verbose
                      THEN [domain EXCEPT !.extraAllClients = @ \cup {src.truncatedIP}]
                      ELSE domain
            dom2   == [dom1 EXCEPT !.QueriesCount = @ + queryCount,
                                   !.Hll = AddRaw(@, src.hash)]
        IN  [ds |-> [d3 EXCEPT !.Domains = PutDomain(@, dn.name, dom2)], err |-> NoError]

\* updateStats keeping the address as it came, not the truncated one, in
\* the debug client sets
updateStats_RawClientInSets(dataset, domainStr, src, queryCount, verbose) ==
    IF queryCount = 0 THEN [ds |-> dataset, err |-> NoError]
    ELSE
    LET d1 == [dataset EXCEPT !.AllQueriesCount = @ + queryCount,
                              !.AllClientsHll = AddRaw(@, src.hash)]
        d2 == IF verbose
              THEN [d1 EXCEPT !.extraAllClients = @ \cup {src.ipAddress},
                              !.extraV6Clients =
                                  IF Is6(src.ipAddress) THEN @ \cup {src.ipAddress} ELSE @]
              ELSE d1
        dn == getDomainName(domainStr, DefaultDNSDomainNameLabels)
    IN  IF dn.err # NoError THEN [ds |-> d2, err |-> [kind |-> "invalid domain name"]]
        ELSE IF dn.name = <<".">> THEN [ds |-> d2, err |-> NoError]
        ELSE
        LET d3     == IF verbose
                      THEN [d2 EXCEPT !.extraAllDomains = @ \cup {dn.name}]
                      ELSE d2
            domain == IF dn.name \in DOMAIN d3.Domains THEN d3.Domains[dn.name] ELSE newDomain
            dom1   == IF verbose
                      THEN [domain EXCEPT !.extraAllClients = @ \cup {src.ipAddress}]
                      ELSE domain
            dom2   == [dom1 EXCEPT !.QueriesCount = @ + queryCount,
                                   !.Hll = AddRaw(@, src.hash)]
        IN  [ds |-> [d3 EXCEPT !.Domains = PutDomain(@, dn.name, dom2)], err |-> NoError]

\* updateStats counting, globally, one query per record instead of queryCount
updateStats_GlobalCountsRecords(dataset, domainStr, src, queryCount, verbose) ==
    IF queryCount = 0 THEN [ds |-> dataset, err |-> NoError]
    ELSE
    LET d1 == [dataset EXCEPT !.AllQueriesCount = @ + 1,
                              !.AllClientsHll = AddRaw(@, src.hash)]
        d2 == IF verbose
              THEN [d1 EXCEPT !.extraAllClients = @ \cup {src.truncatedIP},
                              !.extraV6Clients =
                                  IF Is6(src.ipAddress) THEN @ \cup {src.truncatedIP} ELSE @]
              ELSE d1
        dn == getDomainName(domainStr, DefaultDNSDomainNameLabels)
    IN  IF dn.err # NoError THEN [ds |-> d2, err |-> [kind |-> "invalid domain name"]]
        ELSE IF dn.name = <<".">> THEN [ds |-> d2, err |-> NoError]
        ELSE
        LET d3     == IF verbose
                      THEN [d2 EXCEPT !.extraAllDomains = @ \cup {dn.name}]
                      ELSE d2
            domain == IF dn.name \in DOMAIN d3.Domains THEN d3.Domains[dn.name] ELSE newDomain
            dom1   == IF verbose
                      THEN [domain EXCEPT !.extraAllClients = @ \cup {src.truncatedIP}]
                      ELSE domain
            dom2   == [dom1 EXCEPT !.QueriesCount = @ + queryCount,
                                   !.Hll = AddRaw(@, src.hash)]
        IN  [ds |-> [d3 EXCEPT !.Domains = PutDomain(@, dn.name, dom2)], err |-> NoError]

\* updateStats returns [ds, err]: the dataset as the call leaves it, and the error
updateStats(dataset, domainStr, src, queryCount, verbose) ==
    IF queryCount = 0 THEN [ds |-> dataset, err |-> NoError]
    ELSE
    LET d1 == [dataset EXCEPT !.AllQueriesCount = @ + queryCount,
                              !.AllClientsHll = AddRaw(@, src.hash)]
        d2 == IF verbose
              THEN [d1 EXCEPT !.extraAllClients = @ \cup {src.truncatedIP},
                              !.extraV6Clients =
                                  IF Is6(src.ipAddress) THEN @ \cup {src.truncatedIP} ELSE @]
              ELSE d1
        dn == getDomainName(domainStr, DefaultDNSDomainNameLabels)
    IN  IF dn.err # NoError THEN [ds |-> d2, err |-> [kind |-> "invalid domain name"]]
        ELSE IF dn.name = <<".">> THEN [ds |-> d2, err |-> NoError]
        ELSE
        LET d3     == IF verbose
                      THEN [d2 EXCEPT !.extraAllDomains = @ \cup {dn.name}]
                      ELSE d2
            found  == dn.name \in DOMAIN d3.Domains
            domain == IF found THEN d3.Domains[dn.name] ELSE newDomain
            dom1   == IF verbose
                      THEN [domain EXCEPT !.extraAllClients = @ \cup {src.truncatedIP}]
                      ELSE domain
            dom2   == [dom1 EXCEPT !.QueriesCount = @ + queryCount,
                                   !.Hll = AddRaw(@, src.hash)]
        IN  [ds |-> [d3 EXCEPT !.Domains = PutDomain(@, dn.name, dom2)], err |-> NoError]

finaliseStats(dataset) ==
    LET old == dataset.Domains
    IN  [dataset EXCEPT
            !.Domains = [d \in DOMAIN old |->
                            [old[d] EXCEPT !.ClientsCount = HllCardinality(old[d].Hll)]],
            !.AllClientsCount = HllCardinality(dataset.AllClientsHll)]

---------------------------------------------------------------------------
(* Magnitude ranking and truncation *)

\* int(((math.Log(float64(numSrcIPs)) / math.Log(float64(allClients))) * 10) * 1000)
\* in float64 arithmetic, tabulated for the client counts the model reaches
\* (<<numSrcIPs, allClients>> with 1 <= numSrcIPs <= allClients, 2 <= allClients).
MagnitudeTable ==
    (<<1, 2>> :> 0) @@ (<<2, 2>> :> 10000) @@
    (<<1, 3>> :> 0) @@ (<<2, 3>> :> 6309) @@ (<<3, 3>> :> 10000) @@
    (<<1, 4>> :> 0) @@ (<<2, 4>> :> 5000) @@ (<<3, 4>> :> 7924) @@
    (<<4, 4>> :> 10000) @@
    (<<1, 5>> :> 0) @@ (<<2, 5>> :> 4306) @@ (<<3, 5>> :> 6826) @@
    (<<4, 5>> :> 8613) @@ (<<5, 5>> :> 10000) @@
    (<<1, 2000>> :> 0) @@ (<<2, 2000>> :> 911) @@
    (<<1411, 2000>> :> 9541) @@ (<<1412, 2000>> :> 9541) @@
    (<<1413, 2000>> :> 9542) @@ (<<2000, 2000>> :> 10000)

\* With allClients = 1 the divisor is math.Log(1) = 0 and a domain with one
\* client has magnitude 0/0 = NaN, whose conversion to int is implementation
\* specific (MinInt64 on amd64, 0 on arm64).  Every domain of such a dataset
\* has the same count and so the same converted value, whatever it is;
\* NotANumber stands for that value.
NotANumber == -1

MagnitudeMilli(numSrcIPs, allClients) ==
    IF <<numSrcIPs, allClients>> \in DOMAIN MagnitudeTable
    THEN MagnitudeTable[<<numSrcIPs, allClients>>]
    ELSE NotANumber

\* the comparison function handed to slices.SortFunc
CompareMagnitude(a, b) ==
    LET magnitudeDiff == a.Magnitude - b.Magnitude
    IN  IF magnitudeDiff # 0 THEN magnitudeDiff
        ELSE IF StrLess(a.Domain, b.Domain) THEN -1
        ELSE IF StrLess(b.Domain, a.Domain) THEN 1
        ELSE 0

\* slices.SortFunc: the elements of set S in the order of CompareMagnitude
\* (a strict total order here, so the sorted slice is unique)
RECURSIVE SortFunc(_)
SortFunc(S) ==
    IF S = {} THEN <<>>
    ELSE LET first == CHOOSE x \in S : \A y \in S \ {x} : CompareMagnitude(x, y) < 0
         IN  <<first>> \o SortFunc(S \ {first})

\* SortedByMagnitude: entries [Domain, Magnitude, DomainHll]; Magnitude holds
\* the magnitude in the only form the code compares it in, int(Magnitude*1000)
SortedByMagnitude(dataset) ==
    SortFunc({ [Domain    |-> name,
                Magnitude |-> MagnitudeMilli(dataset.Domains[name].ClientsCount,
                                             dataset.AllClientsCount),
                DomainHll |-> dataset.Domains[name]] : name \in DOMAIN dataset.Domains })

Max(a, b) == IF a > b THEN a ELSE b

\* Truncate with every entry of the sorted slice pointing at one shared
\* loop variable (the range loop of a Go before 1.22): each retained domain
\* gets the record of the domain visited last
Truncate_SharedLoopVariable(dataset, maxDomains) ==
    IF maxDomains <= 0 \/ Cardinality(DOMAIN dataset.Domains) <= maxDomains
    THEN dataset
    ELSE LET sorted     == SortedByMagnitude(dataset)
             idx        == Max(Len(sorted) - maxDomains, 0)
             topDomains == SubSeq(sorted, idx + 1, Len(sorted))
             res        == [name \in { topDomains[i].Domain : i \in 1..Len(topDomains) } |->
                               sorted[Len(sorted)].DomainHll]
         IN  [dataset EXCEPT !.Domains = res]

Truncate(dataset, maxDomains) ==
    IF maxDomains <= 0 \/ Cardinality(DOMAIN dataset.Domains) <= maxDomains
    THEN dataset
    ELSE LET sorted     == SortedByMagnitude(dataset)
             idx        == Max(Len(sorted) - maxDomains, 0)
             topDomains == SubSeq(sorted, idx + 1, Len(sorted))
             res        == [name \in { topDomains[i].Domain : i \in 1..Len(topDomains) } |->
                               (CHOOSE dm \in SeqRange(topDomains) : dm.Domain = name).DomainHll]
         IN  [dataset EXCEPT !.Domains = res]

---------------------------------------------------------------------------
(* Aggregator *)

\* the validation loop reporting the last mismatching input, not the first
RECURSIVE FirstMismatch_Last(_, _)
FirstMismatch_Last(datasets, i) ==
    IF i > Len(datasets) THEN 0
    ELSE IF FirstMismatch_Last(datasets, i + 1) # 0
         THEN FirstMismatch_Last(datasets, i + 1)
    ELSE IF \/ datasets[i].Version # datasets[1].Version
            \/ DateString(datasets[i]) # DateString(datasets[1])
         THEN i
    ELSE 0

\* the first input (in input order) whose version or date differs from the
\* first input's, or 0: the loop at the head of AggregateDatasets
RECURSIVE FirstMismatch(_, _)
FirstMismatch(datasets, i) ==
    IF i > Len(datasets) THEN 0
    ELSE IF \/ datasets[i].Version # datasets[1].Version
            \/ DateString(datasets[i]) # DateString(datasets[1])
         THEN i
    ELSE FirstMismatch(datasets, i + 1)

MismatchError(datasets, i) ==
    IF datasets[i].Version # datasets[1].Version
    THEN [kind     |-> "version mismatch",
          dataset  |-> datasets[i].extraSourceFilename,
          has      |-> datasets[i].Version,
          expected |-> datasets[1].Version]
    ELSE [kind     |-> "date mismatch",
          dataset  |-> datasets[i].extraSourceFilename,
          has      |-> DateString(datasets[i]),
          expected |-> DateString(datasets[1])]

\* the domain loop replacing a domain's query count instead of adding to it
MergeDomains_Overwrites(resDomains, domains) ==
    [d \in DOMAIN resDomains \cup DOMAIN domains |->
        IF d \notin DOMAIN domains THEN resDomains[d]
        ELSE LET this == IF d \in DOMAIN resDomains THEN resDomains[d] ELSE newDomain
             IN  [Hll             |-> StrictUnion(this.Hll, domains[d].Hll),
                  ClientsCount    |-> this.ClientsCount,
                  QueriesCount    |-> domains[d].QueriesCount,
                  extraAllClients |-> this.extraAllClients \cup domains[d].extraAllClients]]

\* res.Domains after folding one input's domains into it
MergeDomains(resDomains, domains) ==
    [d \in DOMAIN resDomains \cup DOMAIN domains |->
        IF d \notin DOMAIN domains THEN resDomains[d]
        ELSE LET this == IF d \in DOMAIN resDomains THEN resDomains[d] ELSE newDomain
             IN  [Hll             |-> StrictUnion(this.Hll, domains[d].Hll),
                  ClientsCount    |-> this.ClientsCount,
                  QueriesCount    |-> this.QueriesCount + domains[d].QueriesCount,
                  extraAllClients |-> this.extraAllClients \cup domains[d].extraAllClients]]

\* the aggregation loops adding only the first input's global query count
RECURSIVE AggregateInto_SumsGlobalOnce(_, _, _)
AggregateInto_SumsGlobalOnce(res, datasets, i) ==
    IF i > Len(datasets) THEN res
    ELSE LET dataset == datasets[i]
         IN  AggregateInto_SumsGlobalOnce(
                 [res EXCEPT
                     !.AllClientsHll   = StrictUnion(@, dataset.AllClientsHll),
                     !.extraAllClients = @ \cup dataset.extraAllClients,
                     !.extraV6Clients  = @ \cup dataset.extraV6Clients,
                     !.extraAllDomains = @ \cup dataset.extraAllDomains,
                     !.AllQueriesCount = IF i = 1 THEN @ + dataset.AllQueriesCount ELSE @,
                     !.Domains         = MergeDomains(@, dataset.Domains)],
                 datasets, i + 1)

\* the aggregation loops without the union of the global client estimator
RECURSIVE AggregateInto_NoGlobalUnion(_, _, _)
AggregateInto_NoGlobalUnion(res, datasets, i) ==
    IF i > Len(datasets) THEN res
    ELSE LET dataset == datasets[i]
         IN  AggregateInto_NoGlobalUnion(
                 [res EXCEPT
                     !.extraAllClients = @ \cup dataset.extraAllClients,
                     !.extraV6Clients  = @ \cup dataset.extraV6Clients,
                     !.extraAllDomains = @ \cup dataset.extraAllDomains,
                     !.AllQueriesCount = @ + dataset.AllQueriesCount,
                     !.Domains         = MergeDomains(@, dataset.Domains)],
                 datasets, i + 1)

\* the three aggregation loops over inputs i..Len(datasets), applied to res
RECURSIVE AggregateInto(_, _, _)
AggregateInto(res, datasets, i) ==
    IF i > Len(datasets) THEN res
    ELSE LET dataset == datasets[i]
         IN  AggregateInto(
                 [res EXCEPT
                     !.AllClientsHll   = StrictUnion(@, dataset.AllClientsHll),
                     !.extraAllClients = @ \cup dataset.extraAllClients,
                     !.extraV6Clients  = @ \cup dataset.extraV6Clients,
                     !.extraAllDomains = @ \cup dataset.extraAllDomains,
                     !.AllQueriesCount = @ + dataset.AllQueriesCount,
                     !.Domains         = MergeDomains(@, dataset.Domains)],
                 datasets, i + 1)

\* the domains of input i whose estimator StrictUnion refuses
BadDomains(datasets, i) ==
    { d \in DOMAIN datasets[i].Domains :
        ~StrictUnionOk(NewHll, datasets[i].Domains[d].Hll) }

\* AggregateDatasets returns [ds, err].  A refused union of a domain's
\* estimator is reported for one domain of the first input that has such a
\* domain (the map's iteration order decides which): err.domains holds the
\* candidates.
AggregateDatasets(datasets) ==
    IF Len(datasets) < 2
    THEN [ds |-> ZeroDataset, err |-> [kind |-> "no datasets to aggregate"]]
    ELSE IF FirstMismatch(datasets, 1) # 0
    THEN [ds |-> ZeroDataset, err |-> MismatchError(datasets, FirstMismatch(datasets, 1))]
    ELSE IF \E i \in 1..Len(datasets) : ~StrictUnionOk(NewHll, datasets[i].AllClientsHll)
    THEN [ds |-> ZeroDataset, err |-> [kind |-> "failed to union all clients HLL"]]
    ELSE IF \E i \in 1..Len(datasets) : BadDomains(datasets, i) # {}
    THEN LET i == CHOOSE k \in 1..Len(datasets) :
                     /\ BadDomains(datasets, k) # {}
                     /\ \A j \in 1..(k - 1) : BadDomains(datasets, j) = {}
         IN  [ds  |-> ZeroDataset,
              err |-> [kind |-> "failed to union HLL for domain",
                       domains |-> BadDomains(datasets, i)]]
    ELSE [ds  |-> finaliseStats(AggregateInto(newDataset(datasets[1].Date), datasets, 1)),
          err |-> NoError]

---------------------------------------------------------------------------
(* Collector *)

NewCollector(topCount, chunkSize, verbose, date) ==
    [topCount           |-> topCount,
     chunkSize          |-> chunkSize,
     verbose            |-> verbose,
     current            |-> SetDate(newDataset(date), date),
     Result             |-> newDataset(date),
     recordCount        |-> 0,
     chunkCount         |-> 0,
     invalidDomainCount |-> 0]

\* migrateCurrent resetting current to an undated dataset (dated today)
InstallChunk_UndatedCurrent(c, res) ==
    [c   |-> [c EXCEPT !.Result     = res,
                       !.current    = newDataset(Nil),
                       !.chunkCount = @ + 1],
     err |-> NoError]

\* migrateCurrent from the truncation on: Result and current are replaced
\* and the chunk is counted
InstallChunk(c, res) ==
    [c   |-> [c EXCEPT !.Result     = res,
                       !.current    = newDataset(res.Date),
                       !.chunkCount = @ + 1],
     err |-> NoError]

\* migrateCurrent installing the merged dataset without truncating it
AfterAggregate_NoTruncate(c, agg) ==
    IF agg.err # NoError
    THEN [c |-> c, err |-> [kind |-> "failed to aggregate datasets", cause |-> agg.err]]
    ELSE InstallChunk(c, agg.ds)

\* migrateCurrent after its call of AggregateDatasets, which returned agg
AfterAggregate(c, agg) ==
    IF agg.err # NoError
    THEN [c |-> c, err |-> [kind |-> "failed to aggregate datasets", cause |-> agg.err]]
    ELSE InstallChunk(c, Truncate(agg.ds, c.topCount))

\* migrateCurrent from the assignment of Result.Date on
MergeCurrent(c) == AfterAggregate(c, AggregateDatasets(<<c.Result, c.current>>))

\* migrateCurrent without the reset of current after the merge
migrateCurrent_KeepsCurrent(c) ==
    IF c.current.AllQueriesCount = 0 THEN [c |-> c, err |-> NoError]
    ELSE [c   |-> [c EXCEPT !.Result =
                               Truncate(AggregateDatasets(
                                   <<[c.Result EXCEPT !.Date = c.current.Date],
                                     c.current>>).ds, c.topCount),
                            !.chunkCount = @ + 1],
          err |-> NoError]

\* migrateCurrent without the check for an empty current
migrateCurrent_NoSkip(c) == MergeCurrent([c EXCEPT !.Result.Date = c.current.Date])

\* migrateCurrent returns [c, err]: the collector as the call leaves it
migrateCurrent(c) ==
    IF c.current.AllQueriesCount = 0 THEN [c |-> c, err |-> NoError]
    ELSE MergeCurrent([c EXCEPT !.Result.Date = c.current.Date])

\* the error a failed migration is returned as
MigrationResult(mig) ==
    IF mig.err # NoError
    THEN [c   |-> mig.c,
          err |-> [kind |-> "failed to migrate current dataset", cause |-> mig.err]]
    ELSE [c |-> mig.c, err |-> NoError]

\* ProcessRecord migrating after every counted record, whatever the chunk size
AtChunkBoundary_EveryRecord(c) == MigrationResult(migrateCurrent(c))

\* ProcessRecord once the record is counted: the chunk boundary
AtChunkBoundary(c) ==
    IF c.chunkSize # 0 /\ c.recordCount % c.chunkSize = 0
    THEN MigrationResult(migrateCurrent(c))
    ELSE [c |-> c, err |-> NoError]

\* ProcessRecord counting a record with an invalid domain as processed too
AfterUpdateStats_CountsInvalid(c, upd) ==
    AtChunkBoundary([c EXCEPT !.current            = upd.ds,
                              !.recordCount        = @ + 1,
                              !.invalidDomainCount = IF upd.err # NoError THEN @ + 1 ELSE @])

\* ProcessRecord after its call of updateStats, which returned upd
AfterUpdateStats(c, upd) ==
    IF upd.err # NoError
    THEN [c   |-> [c EXCEPT !.current = upd.ds, !.invalidDomainCount = @ + 1],
          err |-> NoError]
    ELSE AtChunkBoundary([c EXCEPT !.current = upd.ds, !.recordCount = @ + 1])

\* ProcessRecord migrating one record late: at the record after each chunkSize-th
ProcessRecord_LateBoundary(c, domainStr, src, queryCount) ==
    IF updateStats(c.current, domainStr, src, queryCount, c.verbose).err # NoError
    THEN AfterUpdateStats(c, updateStats(c.current, domainStr, src, queryCount, c.verbose))
    ELSE IF c.chunkSize # 0 /\ c.recordCount # 0 /\ c.recordCount % c.chunkSize = 0
    THEN MigrationResult(migrateCurrent(
             [c EXCEPT !.current = updateStats(c.current, domainStr, src, queryCount,
                                               c.verbose).ds,
                       !.recordCount = @ + 1]))
    ELSE [c   |-> [c EXCEPT !.current = updateStats(c.current, domainStr, src, queryCount,
                                                    c.verbose).ds,
                            !.recordCount = @ + 1],
          err |-> NoError]

\* ProcessRecord returns [c, err]
ProcessRecord(c, domainStr, src, queryCount) ==
    AfterUpdateStats(c, updateStats(c.current, domainStr, src, queryCount, c.verbose))

\* Collector.SetDate
CollectorSetDate(c, date) == [c EXCEPT !.current = SetDate(@, date)]

\* Finalise after its call of migrateCurrent, which returned mig
AfterLastMigration(mig) ==
    IF mig.err # NoError
    THEN mig
    ELSE [c   |-> [mig.c EXCEPT !.Result = finaliseStats(Truncate(@, mig.c.topCount))],
          err |-> NoError]

\* Finalise returns [c, err]
Finalise(c) == AfterLastMigration(MigrationResult(migrateCurrent(c)))

---------------------------------------------------------------------------
(* Inputs of the collector run *)

\* the records the producers hand over: [domainStr, addr, queryCount]
Rec(domainStr, addr, queryCount) ==
    [domainStr |-> domainStr, addr |-> addr, queryCount |-> queryCount]

Records ==
    { Rec(<<"c","o","m">>, <<4, 1, 1>>, 1),             \* a TLD
      Rec(<<"c","o","m">>, <<4, 1, 2>>, 2),             \* same /24 as the first
      Rec(<<"w",".","O","R","G",".">>, <<6, 1, 1>>, 1), \* upper case, trailing dot, IPv6
      Rec(<<>>, <<6, 1, 1>>, 1),                        \* the root, as the empty name
      Rec(<<".">>, <<4, 1, 1>>, 2),                     \* the root
      Rec(<<"x","1">>, <<6, 1, 2>>, 2),                 \* not a TLD: a digit
      Rec(<<"c","o","m">>, <<6, 1, 1>>, 0) }            \* no queries

TopCounts == 0..MaxTop

ChunkSizes == 0..MaxChunk

\* dates given on the command line or taken from a packet
GivenDates == { [day |-> 2, tod |-> 1] }

IsValidDomain(domainStr) ==
    getDomainName(domainStr, DefaultDNSDomainNameLabels).err = NoError

IsRoot(domainStr) ==
    getDomainName(domainStr, DefaultDNSDomainNameLabels).name = <<".">>

---------------------------------------------------------------------------
(* Specification of a collector run: NewCollector, then ProcessRecord and  *)
(* SetDate calls in any order, then Finalise.                              *)

NotCollecting ==
    /\ aggIn = Unused /\ aggOut = Unused /\ seq = Unused /\ rd = Unused /\ tr = Unused
    /\ gdn = Unused /\ runs = Unused

InitCollector ==
    /\ \E topCount \in TopCounts, chunkSize \in ChunkSizes, verbose \in BOOLEAN,
          date \in {Nil} \cup GivenDates :
          /\ col = NewCollector(topCount, chunkSize, verbose, date)
          /\ hist = [calls        |-> 0,
                     sumQueries   |-> 0,
                     allValid     |-> TRUE,
                     dateGiven    |-> date # Nil,
                     last         |-> Nil,
                     migrated     |-> FALSE]
    /\ colPc = "collecting"
    /\ NotCollecting

\* the collector and the history after a ProcessRecord call that returned r
RecordProcessed(rec, r) ==
    /\ col' = r.c
    /\ colPc' = IF r.err = NoError THEN "collecting" ELSE "failed"
    /\ hist' = [hist EXCEPT
                  !.calls      = @ + 1,
                  !.sumQueries = @ + rec.queryCount,
                  !.allValid   = @ /\ IsValidDomain(rec.domainStr) /\ rec.queryCount > 0,
                  !.last       = rec,
                  !.migrated   = r.c.chunkCount # col.chunkCount]

DoProcessRecord ==
    /\ colPc = "collecting"
    /\ hist.calls < MaxRecords
    /\ \E rec \in Records :
          RecordProcessed(rec, ProcessRecord(col, rec.domainStr, newIPAddress(rec.addr),
                                             rec.queryCount))
    /\ UNCHANGED <<aggIn, aggOut, seq, rd, tr, gdn, runs>>

DoSetDate ==
    /\ colPc = "collecting"
    /\ \E date \in GivenDates :
          col' = CollectorSetDate(col, date)
    /\ col' # col
    /\ hist' = [hist EXCEPT !.last = Nil, !.migrated = FALSE]
    /\ UNCHANGED <<colPc, aggIn, aggOut, seq, rd, tr, gdn, runs>>

\* the collector and the history after a Finalise call that returned r
Finalised(r) ==
    /\ col' = r.c
    /\ colPc' = IF r.err = NoError THEN "done" ELSE "failed"
    /\ hist' = [hist EXCEPT !.last = Nil,
                            !.migrated = r.c.chunkCount # col.chunkCount]

DoFinalise ==
    /\ colPc = "collecting"
    /\ Finalised(Finalise(col))
    /\ UNCHANGED <<aggIn, aggOut, seq, rd, tr, gdn, runs>>

NextCollector == DoProcessRecord \/ DoSetDate \/ DoFinalise

SpecCollector == InitCollector /\ [][NextCollector]_vars

---------------------------------------------------------------------------
(* Properties of a collector run *)

\* ceil(n / c) for c > 0
CeilDiv(n, c) == (n + c - 1) \div c

\* C1: whatever the chunk size and top-N, no query is lost or counted twice:
\* at every moment the queries held by current and by Result add up to the
\* query counts of all records processed so far, and once Finalise has
\* returned current holds none and Result's global query count is that sum.
C1_FinaliseKeepsEveryQuery ==
    colPc \in {"collecting", "done"} =>
        /\ col.current.AllQueriesCount + col.Result.AllQueriesCount = hist.sumQueries
        /\ colPc = "done" =>
              /\ col.current.AllQueriesCount = 0
              /\ col.Result.AllQueriesCount = hist.sumQueries

\* a finalised run with chunking, with an invalid-domain record, and with a
\* domain dropped by truncation
C1_Witness ==
    /\ colPc = "done"
    /\ col.chunkSize = 2
    /\ col.chunkCount = 2
    /\ col.topCount = 1
    /\ col.invalidDomainCount = 1
    /\ Cardinality(col.Result.extraAllDomains) = 2
    /\ Cardinality(DOMAIN col.Result.Domains) = 1
    /\ col.Result.AllQueriesCount = 4

\* C2: with chunk size c > 0 and n records, all with valid domains and
\* positive query counts, chunkCount is n div c while collecting (one migration
\* at every c-th record) and ceil(n / c) after Finalise.
C2_ChunkCountIsCeiling ==
    (colPc \in {"collecting", "done"} /\ col.chunkSize > 0 /\ hist.allValid) =>
        /\ col.recordCount = hist.calls
        /\ colPc = "collecting" => col.chunkCount = hist.calls \div col.chunkSize
        /\ colPc = "done" => col.chunkCount = CeilDiv(hist.calls, col.chunkSize)

\* three valid records, chunk size 2: one migration at the second record and
\* one at Finalise for the remaining record
C2_Witness ==
    /\ colPc = "done"
    /\ hist.allValid
    /\ col.chunkSize = 2
    /\ hist.calls = 3
    /\ col.chunkCount = 2

\* what updateStats must do to dataset `before` for record rec
UpdateStatsCounts(before, after, rec) ==
    LET dn == getDomainName(rec.domainStr, DefaultDNSDomainNameLabels)
    IN  (rec.queryCount > 0 /\ dn.err = NoError) =>
            /\ after.AllQueriesCount = before.AllQueriesCount + rec.queryCount
            /\ IF rec.domainStr = <<>> \/ rec.domainStr = <<".">>
               THEN after.Domains = before.Domains
               ELSE /\ DOMAIN after.Domains = DOMAIN before.Domains \cup {dn.name}
                    /\ after.Domains[dn.name].QueriesCount =
                          (IF dn.name \in DOMAIN before.Domains
                           THEN before.Domains[dn.name].QueriesCount ELSE 0)
                          + rec.queryCount
                    /\ \A d \in DOMAIN before.Domains \ {dn.name} :
                          after.Domains[d] = before.Domains[d]

\* C9: in every dataset the collector accumulates, updateStats with a valid
\* non-root domain and a positive count adds the count to the global query
\* count and to that domain's query count (creating its record if absent) and
\* leaves every other domain's record as it was; with the root ("" or ".")
\* it adds to the global count only and leaves the domain map as it was; "."
\* is never a key of a domain map.
C9_UpdateStatsCounts ==
    colPc \in {"collecting", "done"} =>
        /\ \A rec \in Records :
              UpdateStatsCounts(col.current,
                  updateStats(col.current, rec.domainStr, newIPAddress(rec.addr),
                              rec.queryCount, col.verbose).ds,
                  rec)
        /\ <<".">> \notin DOMAIN col.current.Domains
        /\ <<".">> \notin DOMAIN col.Result.Domains

\* the last record was for the root, after records for two TLDs, and current
\* holds them all
C9_Witness ==
    /\ colPc = "collecting"
    /\ hist.last # Nil
    /\ hist.last.domainStr = <<".">>
    /\ DOMAIN col.current.Domains = { <<"c","o","m">>, <<"o","r","g">> }
    /\ col.current.Domains[<<"o","r","g">>].QueriesCount = 1
    /\ col.current.AllQueriesCount = 4

\* the records with a positive count whose domain getDomainName refuses
InvalidRecords ==
    { rec \in Records : rec.queryCount > 0 /\ ~IsValidDomain(rec.domainStr) }

\* a record with a domain getDomainName refuses and no queries
InvalidZero == Rec(<<"x","1">>, <<6, 1, 2>>, 0)

\* C13 as stated: ProcessRecord on a record whose domain fails normalisation
\* returns no error, adds one to the invalid-domain counter and changes
\* nothing else of the collector: not current's global query count, global
\* estimator or domain map, not the processed-record counter, and it
\* triggers no migration.
C13_InvalidOnlyCounted_AsStated ==
    colPc = "collecting" =>
        \A rec \in InvalidRecords :
            ProcessRecord(col, rec.domainStr, newIPAddress(rec.addr), rec.queryCount) =
                [c |-> [col EXCEPT !.invalidDomainCount = @ + 1], err |-> NoError]

\* the collector r.c is collector c with one more invalid domain and with
\* the record's queries and client in current's global statistics only
InvalidCounted(c, r, rec, src) ==
    /\ r.err = NoError
    /\ r.c = [c EXCEPT
                !.invalidDomainCount         = @ + 1,
                !.current.AllQueriesCount    = @ + rec.queryCount,
                !.current.AllClientsHll.regs = @ \cup {src.hash},
                !.current.extraAllClients    =
                    IF c.verbose THEN @ \cup {src.truncatedIP} ELSE @,
                !.current.extraV6Clients     =
                    IF c.verbose /\ rec.addr[1] = 6 THEN @ \cup {src.truncatedIP} ELSE @]
    /\ r.c.current.Domains = c.current.Domains
    /\ r.c.recordCount = c.recordCount
    /\ r.c.chunkCount = c.chunkCount
    /\ r.c.Result = c.Result

\* C13 amended: ProcessRecord on a record with a positive query count whose
\* domain fails normalisation returns no error and adds one to the
\* invalid-domain counter; the record's query count is added to current's
\* global query count and its client to current's global estimator (and, in
\* verbose mode, to the debug client sets); the domain map, the
\* processed-record counter, the chunk count and Result stay as they are: no
\* migration is triggered.  A record with a query count of 0 is not validated
\* and leaves the invalid-domain counter as it is.
C13_InvalidOnlyCounted ==
    colPc = "collecting" =>
        /\ \A rec \in InvalidRecords :
              InvalidCounted(col,
                  ProcessRecord(col, rec.domainStr, newIPAddress(rec.addr), rec.queryCount),
                  rec, newIPAddress(rec.addr))
        /\ ProcessRecord(col, InvalidZero.domainStr, newIPAddress(InvalidZero.addr),
                         InvalidZero.queryCount).c.invalidDomainCount
              = col.invalidDomainCount

\* chunk size 1: a valid record was migrated, then two records with an
\* invalid domain were counted in current without a migration
C13_Witness ==
    /\ colPc = "collecting"
    /\ hist.last = Rec(<<"x","1">>, <<6, 1, 2>>, 2)
    /\ col.chunkSize = 1
    /\ col.invalidDomainCount = 2
    /\ col.recordCount = 1
    /\ col.chunkCount = 1
    /\ col.current.AllQueriesCount = 4
    /\ col.current.Domains = EmptyMap

\* the finalised collector fin.c holds the queries of rec, beside those of
\* collector c, in its global count and in no domain record
CountedGlobally(c, r, fin, rec) ==
    /\ r.err = NoError /\ fin.err = NoError
    /\ r.c.current.AllQueriesCount = c.current.AllQueriesCount + rec.queryCount
    /\ r.c.current.Domains = c.current.Domains
    /\ r.c.invalidDomainCount = c.invalidDomainCount + 1
    /\ fin.c.invalidDomainCount = c.invalidDomainCount + 1
    /\ fin.c.Result.AllQueriesCount =
          c.Result.AllQueriesCount + c.current.AllQueriesCount + rec.queryCount
    /\ DOMAIN fin.c.Result.Domains \subseteq
          DOMAIN c.Result.Domains \cup DOMAIN c.current.Domains
    /\ ToLower(rec.domainStr) \notin DOMAIN fin.c.Result.Domains

\* the collector after ProcessRecord returned r, finalised
FinalisedAfter(c, r, rec) == CountedGlobally(c, r, Finalise(r.c), rec)

\* C14: every query is counted globally, also those for invalid domains: a
\* record with a positive count and an invalid domain adds its count to the
\* global query count of current and of the collected dataset, creates no
\* per-domain record, and is counted once in the invalid-domain counter.
C14_InvalidCountedGlobally ==
    colPc = "collecting" =>
        \A rec \in InvalidRecords :
            FinalisedAfter(col,
                ProcessRecord(col, rec.domainStr, newIPAddress(rec.addr), rec.queryCount),
                rec)

\* a record for com with 1 query and a record for x1 with 2, finalised: 3
\* queries and 2 clients globally, one domain with 1 query
C14_Witness ==
    /\ colPc = "done"
    /\ hist.calls = 2
    /\ hist.sumQueries = 3
    /\ col.invalidDomainCount = 1
    /\ col.recordCount = 1
    /\ col.Result.AllQueriesCount = 3
    /\ col.Result.AllClientsCount = 2
    /\ DOMAIN col.Result.Domains = { <<"c","o","m">> }
    /\ col.Result.Domains[<<"c","o","m">>].QueriesCount = 1

\* C15 as stated: ProcessRecord with a query count of 0 is a no-op on the
\* whole collector: no query count changes, no domain record appears, nothing
\* is added to an estimator, the processed-record counter and the chunk count
\* stay as they are, and no migration is triggered.
C15_ZeroCountIsNoOp ==
    colPc = "collecting" =>
        \A rec \in Records :
            rec.queryCount = 0 =>
                ProcessRecord(col, rec.domainStr, newIPAddress(rec.addr), rec.queryCount) =
                    [c |-> col, err |-> NoError]

\* C20: a migration attempted while current has no accumulated queries is a
\* no-op: Result (its date included) and current are as before, the chunk
\* count is not incremented and no error is returned.
C20_EmptyMigrationIsNoOp ==
    (colPc \in {"collecting", "done"} /\ col.current.AllQueriesCount = 0) =>
        migrateCurrent(col) = [c |-> col, err |-> NoError]

\* chunk size 1: the only record was migrated, the date was then set to
\* another day, and the migration of Finalise found current empty: Result
\* keeps the day of the first migration
C20_Witness ==
    /\ colPc = "done"
    /\ col.chunkSize = 1
    /\ hist.calls = 1
    /\ col.chunkCount = 1
    /\ ~hist.migrated
    /\ col.Result.AllQueriesCount = 1
    /\ col.Result.Date.day = 1
    /\ col.current.Date.day = 2

\* a dataset without any per-record detail
IsFresh(dataset) ==
    /\ dataset.AllQueriesCount = 0
    /\ dataset.AllClientsCount = 0
    /\ DOMAIN dataset.Domains = {}
    /\ dataset.AllClientsHll.regs = {}
    /\ dataset.extraAllClients = {}
    /\ dataset.extraV6Clients = {}
    /\ dataset.extraAllDomains = {}

\* C21: after every successful non-skipped migration, current is a fresh
\* empty dataset (no queries, no domains, empty estimators and debug sets)
\* dated as Result is.
C21_CurrentResetAfterMigration ==
    (colPc \in {"collecting", "done"} /\ hist.migrated) =>
        /\ IsFresh(col.current)
        /\ col.current.Date = col.Result.Date

\* a verbose collector with a given date migrated a chunk of two records:
\* Result holds their detail, current none of it, and both have the given day
C21_Witness ==
    /\ colPc = "collecting"
    /\ hist.migrated
    /\ hist.dateGiven
    /\ col.verbose
    /\ col.chunkSize = 2
    /\ col.Result.AllQueriesCount = 3
    /\ col.Result.extraAllClients # {}
    /\ DOMAIN col.Result.Domains # {}
    /\ col.Result.Date.day = 2
    /\ col.current.Date.day = 2
    /\ IsFresh(col.current)

\* a step in which the aggregator merged current into Result
Merges == col'.chunkCount # col.chunkCount \/ col'.Result # col.Result

\* a Finalise step
IsFinaliseStep == colPc = "collecting" /\ colPc' = "done" /\ hist'.calls = hist.calls

\* a ProcessRecord step that brings recordCount to a multiple of a non-zero
\* chunk size
IsBoundaryStep ==
    /\ hist'.calls = hist.calls + 1
    /\ col.chunkSize # 0
    /\ col'.recordCount = col.recordCount + 1
    /\ col'.recordCount % col.chunkSize = 0

\* C22: current is merged into Result only by a ProcessRecord that brings
\* recordCount to a multiple of a non-zero chunk size, or inside Finalise;
\* with chunk size 0 nothing is merged before Finalise.
C22_MergeOnlyAtBoundary ==
    [][Merges => (IsBoundaryStep \/ IsFinaliseStep)]_vars

\* chunk size 2: three ProcessRecord calls, one of them for an invalid name
\* that is not counted, and the merge came with the second counted record
C22_Witness ==
    /\ colPc = "collecting"
    /\ col.chunkSize = 2
    /\ hist.calls = 3
    /\ col.recordCount = 2
    /\ col.invalidDomainCount = 1
    /\ hist.migrated
    /\ col.chunkCount = 1
    /\ col.Result.AllQueriesCount > 0

\* every per-domain client set of the dataset is within the global one: the
\* estimators' contents and, for debugging runs, the recorded addresses
ClientsWithinGlobal(dataset) ==
    \A d \in DOMAIN dataset.Domains :
        /\ dataset.Domains[d].Hll.regs \subseteq dataset.AllClientsHll.regs
        /\ dataset.Domains[d].extraAllClients \subseteq dataset.extraAllClients

\* C23: in every reachable dataset state (current and Result, after any
\* update, merge, truncation or finalisation) each per-domain client set is
\* a subset of the global client set.
C23_DomainClientsWithinGlobal ==
    /\ ClientsWithinGlobal(col.current)
    /\ ClientsWithinGlobal(col.Result)

\* a finished verbose run without truncation: two domains with one client
\* network each, both merged into Result, whose global set holds the two
C23_Witness ==
    /\ colPc = "done"
    /\ col.verbose
    /\ col.chunkCount = 2
    /\ Cardinality(DOMAIN col.Result.Domains) = 2
    /\ Cardinality(col.Result.AllClientsHll.regs) = 2
    /\ Cardinality(col.Result.extraAllClients) = 2
    /\ \A d \in DOMAIN col.Result.Domains :
          /\ Cardinality(col.Result.Domains[d].Hll.regs) = 1
          /\ Cardinality(col.Result.Domains[d].extraAllClients) = 1

\* the sum of QueriesCount over the domains named in names
RECURSIVE DomainQueries(_, _)
DomainQueries(domains, names) ==
    IF names = {} THEN 0
    ELSE LET d == CHOOSE x \in names : TRUE
         IN  domains[d].QueriesCount + DomainQueries(domains, names \ {d})

DomainQueriesWithinGlobal(dataset) ==
    DomainQueries(dataset.Domains, DOMAIN dataset.Domains) <= dataset.AllQueriesCount

C27_ResultWithinTopCount ==
    col.topCount > 0 => Cardinality(DOMAIN col.Result.Domains) <= col.topCount

\* top count 1, chunk size 2: the chunk merged had two domains, Result one
C27_Witness ==
    /\ colPc = "collecting"
    /\ col.topCount = 1
    /\ col.chunkSize = 2
    /\ col.verbose
    /\ hist.migrated
    /\ Cardinality(col.Result.extraAllDomains) = 2
    /\ Cardinality(DOMAIN col.Result.Domains) = 1

---------------------------------------------------------------------------
(* Specification of Collector.ProcessFiles over packet captures: LoadPcap  *)
(* for each file in turn, then Finalise.  Here hist is the state of the    *)
(* loader: the date the collector was created with, processPackets' local  *)
(* dateSet, the collector's invalidRecordCount, the numbers of files and   *)
(* packets read, the collector as it was before the last call (before),    *)
(* the number of ProcessRecord calls that call made (asked) and the error  *)
(* it returned.                                                            *)

\* packets read in one ProcessFiles call
MaxPackets == 3

\* capture files of one ProcessFiles call
MaxFiles == 2

\* a packet: its capture time, whether it has a DNS layer, whether a source
\* address is found in it, that address, and the names of its questions
Packet(time, dns, srcOk, addr, questions) ==
    [time |-> time, dns |-> dns, srcOk |-> srcOk, addr |-> addr, questions |-> questions]

Packets ==
    { Packet([day |-> 3, tod |-> 1], TRUE, TRUE, <<4, 1, 1>>, << <<"c","o","m">> >>),
      Packet([day |-> 3, tod |-> 2], TRUE, TRUE, <<6, 1, 1>>,
             << <<"o","r","g">>, <<"c","o","m">> >>),
      Packet([day |-> 4, tod |-> 1], FALSE, FALSE, <<4, 1, 2>>, <<>>),  \* not DNS
      Packet([day |-> 3, tod |-> 1], TRUE, FALSE, <<4, 1, 2>>,          \* no address
             << <<"c","o","m">> >>),
      Packet([day |-> 2, tod |-> 2], TRUE, TRUE, <<4, 1, 2>>, << <<"x","1">> >>) }

\* Result is an exported field: the version of Result when loading starts,
\* as NewCollector leaves it or raised by the caller
ResultVersions == {1, 2}

\* the loop over dns.Questions from question i on: returns [c, asked, err]
RECURSIVE ProcessQuestions(_, _, _, _)
ProcessQuestions(c, questions, src, i) ==
    IF i > Len(questions) THEN [c |-> c, asked |-> i - 1, err |-> NoError]
    ELSE IF ProcessRecord(c, questions[i], src, 1).err # NoError
    THEN [c     |-> ProcessRecord(c, questions[i], src, 1).c,
          asked |-> i,
          err   |-> [kind  |-> "failed to process record",
                     cause |-> ProcessRecord(c, questions[i], src, 1).err]]
    ELSE ProcessQuestions(ProcessRecord(c, questions[i], src, 1).c, questions, src, i + 1)

\* processPackets, one pass of its loop, after the date was dealt with:
\* returns [c, asked, invalid, err]
PacketBody(c, packet) ==
    IF ~packet.dns
    THEN [c |-> c, asked |-> 0, invalid |-> 0, err |-> NoError]
    ELSE IF ~packet.srcOk
    THEN [c |-> c, asked |-> 0, invalid |-> 1, err |-> NoError]
    ELSE [c       |-> ProcessQuestions(c, packet.questions, newIPAddress(packet.addr), 1).c,
          asked   |-> ProcessQuestions(c, packet.questions, newIPAddress(packet.addr), 1).asked,
          invalid |-> 0,
          err     |-> ProcessQuestions(c, packet.questions, newIPAddress(packet.addr), 1).err]

\* processPackets, one pass of its loop
PacketPass(c, dateSet, packet) ==
    PacketBody(IF ~dateSet THEN CollectorSetDate(c, packet.time) ELSE c, packet)

NotLoading ==
    /\ aggIn = Unused /\ aggOut = Unused /\ seq = Unused /\ rd = Unused /\ tr = Unused
    /\ gdn = Unused /\ runs = Unused

InitLoad ==
    /\ \E topCount \in TopCounts, chunkSize \in ChunkSizes, verbose \in BOOLEAN,
          date \in {Nil} \cup GivenDates, version \in ResultVersions :
          /\ col = [NewCollector(topCount, chunkSize, verbose, date)
                        EXCEPT !.Result.Version = version]
          /\ hist = [date               |-> date,
                     dateSet            |-> FALSE,
                     invalidRecordCount |-> 0,
                     files              |-> 0,
                     packets            |-> 0,
                     before             |-> Nil,
                     asked              |-> 0,
                     err                |-> NoError]
    /\ colPc = "between files"
    /\ NotLoading

\* LoadPcap up to the loop of processPackets
DoOpenPcap ==
    /\ colPc = "between files"
    /\ hist.files < MaxFiles
    /\ colPc' = "in file"
    /\ hist' = [hist EXCEPT !.files = @ + 1, !.dateSet = FALSE]
    /\ UNCHANGED <<col, aggIn, aggOut, seq, rd, tr, gdn, runs>>

\* the collector and the loader after a pass of the loop that returned r
PacketDone(r) ==
    /\ col' = r.c
    /\ colPc' = IF r.err = NoError THEN "in file" ELSE "failed"
    /\ hist' = [hist EXCEPT !.dateSet            = TRUE,
                            !.packets            = @ + 1,
                            !.invalidRecordCount = @ + r.invalid,
                            !.before             = col,
                            !.asked              = r.asked,
                            !.err                = r.err]

DoPacket ==
    /\ colPc = "in file"
    /\ hist.packets < MaxPackets
    /\ \E packet \in Packets : PacketDone(PacketPass(col, hist.dateSet, packet))
    /\ UNCHANGED <<aggIn, aggOut, seq, rd, tr, gdn, runs>>

\* the packet source is exhausted: processPackets and LoadPcap return nil
DoEndOfPcap ==
    /\ colPc = "in file"
    /\ colPc' = "between files"
    /\ UNCHANGED <<col, hist, aggIn, aggOut, seq, rd, tr, gdn, runs>>

\* the collector and the loader after the Finalise call that returned r
FilesFinalised(r) ==
    /\ col' = r.c
    /\ colPc' = IF r.err = NoError THEN "done" ELSE "failed"
    /\ hist' = [hist EXCEPT !.before = col, !.asked = 0, !.err = r.err]

DoFinaliseFiles ==
    /\ colPc = "between files"
    /\ FilesFinalised(Finalise(col))
    /\ UNCHANGED <<aggIn, aggOut, seq, rd, tr, gdn, runs>>

NextLoad == DoOpenPcap \/ DoPacket \/ DoEndOfPcap \/ DoFinaliseFiles

SpecLoad == InitLoad /\ [][NextLoad]_vars

\* C24 as stated: when the collector was created with a given date, loading
\* packet captures does not change the date of the collected dataset (the
\* first packet's time is used only if no date was given).
C24_GivenDateKept ==
    (colPc = "done" /\ hist.date # Nil) => col.Result.Date = DateOnly(hist.date)

\* C25 as stated: when the merge inside a migration fails, the call returns
\* an error and the collector is otherwise as before the migration attempt:
\* Result (counters, domains, date) and the chunk count are unchanged, and
\* current holds every record accumulated since the last successful migration.
C25_FailedMergeKeepsState ==
    colPc = "failed" =>
        /\ hist.err # NoError
        /\ col.Result = hist.before.Result
        /\ col.chunkCount = hist.before.chunkCount
        /\ col.current.AllQueriesCount = hist.before.current.AllQueriesCount + hist.asked
        /\ col.current.AllQueriesCount > 0

---------------------------------------------------------------------------
(* Inputs of the aggregator: datasets as they are after being loaded from  *)
(* files (finalised, with a source filename), written by this or by        *)
(* another implementation of the format.                                   *)

\* one more AggregateDatasets input than the two of the collector
MaxInputs == 3

Com == <<"c","o","m">>

Org == <<"o","r","g">>

\* updateStats for the records recs[i..] in turn
RECURSIVE FoldRecords(_, _, _)
FoldRecords(dataset, recs, i) ==
    IF i > Len(recs) THEN dataset
    ELSE FoldRecords(updateStats(dataset, recs[i].domainStr, newIPAddress(recs[i].addr),
                                 recs[i].queryCount, FALSE).ds,
                     recs, i + 1)

\* a dataset collected from recs on the given day, finalised and named
LoadedDataset(version, day, filename, recs) ==
    [finaliseStats(FoldRecords(newDataset([day |-> day, tod |-> 0]), recs, 1))
        EXCEPT !.Version = version, !.extraSourceFilename = filename]

\* estimator settings other than the defaults (register width 6)
OtherSettings == "log2m14-regwidth6"

\* the dataset with its global estimator rebuilt under other settings
WithGlobalSettings(dataset, settings) ==
    [dataset EXCEPT !.AllClientsHll.settings = settings]

\* the dataset with one domain's estimator rebuilt under other settings
WithDomainSettings(dataset, domain, settings) ==
    [dataset EXCEPT !.Domains[domain].Hll.settings = settings]

AggDatasets ==
    { LoadedDataset(1, 1, <<"a">>, <<Rec(Com, <<4, 1, 1>>, 1)>>),
      LoadedDataset(1, 1, <<"b">>, <<Rec(Com, <<4, 2, 1>>, 2), Rec(Org, <<4, 1, 1>>, 1)>>),
      LoadedDataset(1, 1, <<"c">>, <<Rec(<<".">>, <<6, 1, 1>>, 2)>>),
      LoadedDataset(1, 2, <<"d">>, <<Rec(Org, <<4, 1, 1>>, 1)>>),
      LoadedDataset(2, 1, <<"e">>, <<Rec(Com, <<4, 1, 1>>, 1), Rec(Org, <<6, 1, 1>>, 3)>>),
      LoadedDataset(2, 2, <<"f">>, <<Rec(Com, <<4, 1, 1>>, 1)>>),
      WithGlobalSettings(
          LoadedDataset(1, 1, <<"g">>, <<Rec(Com, <<4, 2, 1>>, 1)>>), OtherSettings),
      WithDomainSettings(
          LoadedDataset(1, 1, <<"h">>, <<Rec(Org, <<4, 2, 1>>, 1)>>), Org, OtherSettings) }

\* the slices handed to AggregateDatasets
InputLists == UNION { [1..n -> AggDatasets] : n \in 0..MaxInputs }

---------------------------------------------------------------------------
(* Specification of an AggregateDatasets call on any list of inputs *)

InitAgg ==
    /\ aggIn \in InputLists
    /\ aggOut = Nil
    /\ col = Unused /\ colPc = "unused" /\ hist = Unused
    /\ seq = Unused /\ rd = Unused /\ tr = Unused
    /\ gdn = Unused /\ runs = Unused

DoAggregate ==
    /\ aggOut = Nil
    /\ aggOut' = AggregateDatasets(aggIn)
    /\ UNCHANGED <<col, colPc, hist, aggIn, seq, rd, tr, gdn, runs>>

NextAgg == DoAggregate

SpecAgg == InitAgg /\ [][NextAgg]_vars

---------------------------------------------------------------------------
(* Properties of AggregateDatasets *)

Called == aggOut # Nil

SameVersionAndDate(in) ==
    \A i \in 1..Len(in) :
        /\ in[i].Version = in[1].Version
        /\ in[i].Date.day = in[1].Date.day

\* every estimator of the inputs has the settings new estimators are given
DefaultEstimators(in) ==
    \A i \in 1..Len(in) :
        /\ in[i].AllClientsHll.settings = DefaultSettings
        /\ \A d \in DOMAIN in[i].Domains : in[i].Domains[d].Hll.settings = DefaultSettings

RECURSIVE SeqSum(_)
SeqSum(s) == IF Len(s) = 0 THEN 0 ELSE Head(s) + SeqSum(Tail(s))

Having(in, d) == { i \in 1..Len(in) : d \in DOMAIN in[i].Domains }

\* sums of the exact counts, unions of the estimators
Merged(in, out) ==
    /\ out.err = NoError
    /\ out.ds.AllQueriesCount = SeqSum([i \in 1..Len(in) |-> in[i].AllQueriesCount])
    /\ out.ds.AllClientsCount =
          Cardinality(UNION { in[i].AllClientsHll.regs : i \in 1..Len(in) })
    /\ DOMAIN out.ds.Domains = UNION { DOMAIN in[i].Domains : i \in 1..Len(in) }
    /\ \A d \in DOMAIN out.ds.Domains :
          /\ out.ds.Domains[d].QueriesCount =
                SeqSum([i \in 1..Len(in) |->
                           IF i \in Having(in, d) THEN in[i].Domains[d].QueriesCount ELSE 0])
          /\ out.ds.Domains[d].ClientsCount =
                Cardinality(UNION { in[i].Domains[d].Hll.regs : i \in Having(in, d) })

\* C5 as stated: for any two or more inputs with equal version and date,
\* AggregateDatasets returns a dataset whose global query count is the sum of
\* the inputs', whose domain keys are the union of the inputs' keys, whose
\* per-domain query counts are the sums over the inputs that have the domain,
\* and whose client counts are the cardinalities of the unions of the inputs'
\* estimators.
C5_SumsAndUnions_AsStated ==
    (Called /\ Len(aggIn) >= 2 /\ SameVersionAndDate(aggIn)) => Merged(aggIn, aggOut)

\* C5 amended: the same, for inputs whose estimators all have the default
\* settings; with an estimator of other settings among the inputs the call
\* returns an error instead.
C5_SumsAndUnions ==
    (Called /\ Len(aggIn) >= 2 /\ SameVersionAndDate(aggIn)) =>
        IF DefaultEstimators(aggIn)
        THEN Merged(aggIn, aggOut)
        ELSE aggOut.err # NoError /\ aggOut.ds = ZeroDataset

\* three different inputs sharing a client and a domain: the merged client
\* count (2) is less than the sum of the inputs' client counts (4)
C5_Witness ==
    /\ Called
    /\ Len(aggIn) = 3
    /\ aggIn[1].extraSourceFilename = <<"b">>
    /\ aggIn[2].extraSourceFilename = <<"a">>
    /\ aggIn[3].extraSourceFilename = <<"c">>
    /\ aggOut.err = NoError
    /\ aggOut.ds.AllQueriesCount = 6
    /\ aggOut.ds.AllClientsCount = 3
    /\ aggOut.ds.Domains[Com].QueriesCount = 3
    /\ aggOut.ds.Domains[Com].ClientsCount = 2
    /\ DOMAIN aggOut.ds.Domains = {Com, Org}

Mismatches(in, i) ==
    in[i].Version # in[1].Version \/ in[i].Date.day # in[1].Date.day

\* C6: when some input's version or day differs from the first input's,
\* AggregateDatasets returns an error and the zero dataset; the error is for
\* the first such input in input order, names it, and carries its own value
\* and the first input's: the versions if the versions differ, else the dates.
C6_FirstMismatchReported ==
    (Called /\ \E i \in 1..Len(aggIn) : Mismatches(aggIn, i)) =>
        LET j == CHOOSE i \in 1..Len(aggIn) :
                    /\ Mismatches(aggIn, i)
                    /\ \A k \in 1..(i - 1) : ~Mismatches(aggIn, k)
        IN  /\ aggOut.ds = ZeroDataset
            /\ aggOut.err # NoError
            /\ aggOut.err.dataset = aggIn[j].extraSourceFilename
            /\ IF aggIn[j].Version # aggIn[1].Version
               THEN /\ aggOut.err.kind = "version mismatch"
                    /\ aggOut.err.has = aggIn[j].Version
                    /\ aggOut.err.expected = aggIn[1].Version
               ELSE /\ aggOut.err.kind = "date mismatch"
                    /\ aggOut.err.has = <<"date", aggIn[j].Date.day>>
                    /\ aggOut.err.expected = <<"date", aggIn[1].Date.day>>

\* the second input matches, the third has another date and the version of
\* the first: the error names the third input and both dates
C6_Witness ==
    /\ Called
    /\ Len(aggIn) = 3
    /\ aggIn[1].extraSourceFilename = <<"e">>
    /\ aggIn[2].extraSourceFilename = <<"e">>
    /\ aggIn[3].extraSourceFilename = <<"f">>
    /\ aggOut.err = [kind     |-> "date mismatch",
                     dataset  |-> <<"f">>,
                     has      |-> <<"date", 2>>,
                     expected |-> <<"date", 1>>]

\* C7 as stated: the dataset a successful AggregateDatasets returns has the
\* version and the date of its inputs, whatever version the inputs share.
C7_VersionAndDateCarried ==
    (Called /\ aggOut.err = NoError) =>
        \A i \in 1..Len(aggIn) :
            /\ aggOut.ds.Version = aggIn[i].Version
            /\ aggOut.ds.Date = aggIn[i].Date

SelfMerge(in) == Len(in) >= 2 /\ \A i \in 1..Len(in) : in[i] = in[1]

\* N times the exact counts, the same client counts
Multiplied(original, n, out) ==
    /\ out.err = NoError
    /\ out.ds.AllQueriesCount = n * original.AllQueriesCount
    /\ out.ds.AllClientsCount = original.AllClientsCount
    /\ out.ds.AllClientsCount = HllCardinality(original.AllClientsHll)
    /\ DOMAIN out.ds.Domains = DOMAIN original.Domains
    /\ \A d \in DOMAIN original.Domains :
          /\ out.ds.Domains[d].QueriesCount = n * original.Domains[d].QueriesCount
          /\ out.ds.Domains[d].ClientsCount = original.Domains[d].ClientsCount
          /\ out.ds.Domains[d].ClientsCount = HllCardinality(original.Domains[d].Hll)

\* C8 as stated: merging a finalised dataset with itself N >= 2 times gives
\* N times its global and per-domain query counts and leaves its global and
\* per-domain client counts as they are.
C8_SelfMerge_AsStated ==
    (Called /\ SelfMerge(aggIn)) => Multiplied(aggIn[1], Len(aggIn), aggOut)

\* C8 amended: the same, for a dataset whose estimators have the default
\* settings; a dataset with an estimator of other settings is refused.
C8_SelfMerge ==
    (Called /\ SelfMerge(aggIn)) =>
        IF DefaultEstimators(aggIn)
        THEN Multiplied(aggIn[1], Len(aggIn), aggOut)
        ELSE aggOut.err # NoError

\* a dataset with two domains and two clients merged with itself three times
C8_Witness ==
    /\ Called
    /\ Len(aggIn) = 3
    /\ SelfMerge(aggIn)
    /\ aggIn[1].extraSourceFilename = <<"b">>
    /\ aggOut.err = NoError
    /\ aggOut.ds.AllQueriesCount = 9
    /\ aggOut.ds.AllClientsCount = 2
    /\ aggOut.ds.Domains[Com].QueriesCount = 6
    /\ aggOut.ds.Domains[Com].ClientsCount = 1

---------------------------------------------------------------------------
(* Inputs of Truncate: finalised datasets with up to three domains.  An    *)
(* estimator holding c clients holds the hashes 1..c; the global estimator *)
(* holds 1..allClients.                                                    *)

\* the largest maxDomains tried: the number of TruncNames
MaxTruncate == 3

TruncNames == { <<"a">>, <<"b">>, <<"c">> }

\* global client counts, and with each the client counts a domain may have
TruncAllClients == {1, 3, 2000}

TruncClients(allClients) ==
    IF allClients = 2000 THEN {1, 1411, 1412, 1413, 2000} ELSE 1..allClients

RankedDataset(allClients, clients) ==
    [newDataset(Nil) EXCEPT
        !.AllClientsHll.regs = 1..allClients,
        !.AllClientsCount    = allClients,
        !.AllQueriesCount    = allClients,
        !.Domains            =
            [d \in DOMAIN clients |->
                [Hll             |-> [settings |-> DefaultSettings, regs |-> 1..clients[d]],
                 ClientsCount    |-> clients[d],
                 QueriesCount    |-> clients[d],
                 extraAllClients |-> {}]]]

TruncDatasets ==
    { RankedDataset(allClients, clients) :
        <<allClients, clients>> \in
            UNION { {allClients} \X
                        UNION { [names -> TruncClients(allClients)] :
                                    names \in SUBSET TruncNames } :
                    allClients \in TruncAllClients } }

---------------------------------------------------------------------------
(* Specification of a Truncate call and a SortedByMagnitude call *)

InitTrunc ==
    /\ \E dataset \in TruncDatasets, maxDomains \in -1..MaxTruncate :
          tr = [dataset |-> dataset, maxDomains |-> maxDomains, out |-> Nil,
                ranked |-> FALSE, sorted |-> <<>>]
    /\ col = Unused /\ colPc = "unused" /\ hist = Unused
    /\ aggIn = Unused /\ aggOut = Unused /\ seq = Unused /\ rd = Unused
    /\ gdn = Unused /\ runs = Unused

DoTruncate ==
    /\ tr.out = Nil
    /\ tr' = [tr EXCEPT !.out = Truncate(tr.dataset, tr.maxDomains)]
    /\ UNCHANGED <<col, colPc, hist, aggIn, aggOut, seq, rd, gdn, runs>>

\* the orders in which a range loop may visit the keys of a map
IterationOrders(m) ==
    { order \in [1..Cardinality(DOMAIN m) -> DOMAIN m] :
        \A i, j \in DOMAIN order : i # j => order[i] # order[j] }

\* the slice SortedByMagnitude appends to while ranging over the map
Appended(dataset, order) ==
    [i \in DOMAIN order |->
        [Domain    |-> order[i],
         Magnitude |-> MagnitudeMilli(dataset.Domains[order[i]].ClientsCount,
                                      dataset.AllClientsCount),
         DomainHll |-> dataset.Domains[order[i]]]]

\* e put into an ordered slice before the first entry it compares less than
InsertOrdered(sorted, e) ==
    LET before == { i \in 1..Len(sorted) : CompareMagnitude(sorted[i], e) < 0 }
        k      == Cardinality(before)
    IN  SubSeq(sorted, 1, k) \o <<e>> \o SubSeq(sorted, k + 1, Len(sorted))

\* slices.SortFunc on a slice, whatever order its entries come in
RECURSIVE SortSlice(_)
SortSlice(slice) ==
    IF slice = <<>> THEN <<>>
    ELSE InsertOrdered(SortSlice(SubSeq(slice, 1, Len(slice) - 1)), slice[Len(slice)])

DoSortedByMagnitude ==
    /\ ~tr.ranked
    /\ \E order \in IterationOrders(tr.dataset.Domains) :
          tr' = [tr EXCEPT !.ranked = TRUE,
                           !.sorted = SortSlice(Appended(tr.dataset, order))]
    /\ UNCHANGED <<col, colPc, hist, aggIn, aggOut, seq, rd, gdn, runs>>

NextTrunc == DoTruncate \/ DoSortedByMagnitude

SpecTrunc == InitTrunc /\ [][NextTrunc]_vars

---------------------------------------------------------------------------
(* Properties of Truncate *)

\* domain a has a strictly higher magnitude than domain b in a dataset with
\* allClients clients: ln(a) / ln(allClients) > ln(b) / ln(allClients).
\* With allClients = 1 both are NaN and neither is higher.
MagnitudeHigher(a, b, allClients) ==
    allClients >= 2 /\ a.ClientsCount > b.ClientsCount

\* C10 as stated: Truncate(N) leaves the domain map as it is when N <= 0 or
\* the map has at most N entries; otherwise the map afterwards has exactly N
\* of its entries, unchanged, and no discarded domain has a strictly higher
\* magnitude than a retained one.
C10_TruncateKeepsHighest ==
    tr.out # Nil =>
        LET before == tr.dataset.Domains
            after  == tr.out.Domains
        IN  IF tr.maxDomains <= 0 \/ Cardinality(DOMAIN before) <= tr.maxDomains
            THEN after = before
            ELSE /\ Cardinality(DOMAIN after) = tr.maxDomains
                 /\ DOMAIN after \subseteq DOMAIN before
                 /\ \A d \in DOMAIN after : after[d] = before[d]
                 /\ \A kept \in DOMAIN after, gone \in DOMAIN before \ DOMAIN after :
                       ~MagnitudeHigher(before[gone], before[kept], tr.dataset.AllClientsCount)

\* C11: Truncate changes nothing of a dataset but the membership of its
\* domain map: version, date, global query count, global estimator and global
\* client count are as before, and every retained domain has the query count,
\* client count and estimator it had before.
C11_TruncateFrame ==
    tr.out # Nil =>
        /\ [tr.out EXCEPT !.Domains = tr.dataset.Domains] = tr.dataset
        /\ DOMAIN tr.out.Domains \subseteq DOMAIN tr.dataset.Domains
        /\ \A d \in DOMAIN tr.out.Domains :
              /\ tr.out.Domains[d].QueriesCount = tr.dataset.Domains[d].QueriesCount
              /\ tr.out.Domains[d].ClientsCount = tr.dataset.Domains[d].ClientsCount
              /\ tr.out.Domains[d].Hll = tr.dataset.Domains[d].Hll

\* three domains with different records truncated to two: b and c stay,
\* each with its own counts
C11_Witness ==
    /\ tr.out # Nil
    /\ tr.maxDomains = 2
    /\ tr.dataset.AllClientsCount = 2000
    /\ DOMAIN tr.dataset.Domains = TruncNames
    /\ tr.dataset.Domains[<<"a">>].ClientsCount = 1
    /\ DOMAIN tr.out.Domains = { <<"b">>, <<"c">> }
    /\ tr.out.Domains[<<"b">>].ClientsCount = 1413
    /\ tr.out.Domains[<<"b">>].Hll.regs = 1..1413
    /\ tr.out.Domains[<<"c">>].QueriesCount = 2000
    /\ tr.out.AllQueriesCount = 2000

\* C12 as stated: SortedByMagnitude returns every domain of the dataset
\* exactly once, each with its record; the magnitude never decreases from one
\* entry to the next; entries of equal magnitude are in ascending name order;
\* and the result is the same whatever order the map is visited in.
C12_SortedAscending ==
    tr.ranked =>
        LET sorted  == tr.sorted
            domains == tr.dataset.Domains
            all     == tr.dataset.AllClientsCount
        IN  /\ Len(sorted) = Cardinality(DOMAIN domains)
            /\ { sorted[i].Domain : i \in 1..Len(sorted) } = DOMAIN domains
            /\ \A i \in 1..Len(sorted) : sorted[i].DomainHll = domains[sorted[i].Domain]
            /\ \A i \in 1..(Len(sorted) - 1) :
                  /\ ~MagnitudeHigher(sorted[i].DomainHll, sorted[i + 1].DomainHll, all)
                  /\ (all >= 2 /\ sorted[i].DomainHll.ClientsCount =
                                      sorted[i + 1].DomainHll.ClientsCount)
                        => StrLess(sorted[i].Domain, sorted[i + 1].Domain)
            /\ sorted = SortedByMagnitude(tr.dataset)

---------------------------------------------------------------------------
(* CBOR codec.  An encoded dataset is a map header token followed by one   *)
(* token per key/value pair; a byte of the stream is a token.              *)

\* TimeWrapper.MarshalCBOR: tag 1004 around the date as text (the time of
\* day is not written)
MarshalTime(date) == [tag |-> 1004, content |-> <<"date", date.day>>]

\* TimeWrapper.UnmarshalCBOR: time.Parse(time.DateOnly, text) is midnight UTC
UnmarshalTime(value) == [day |-> value.content[2], tod |-> 0]

\* MarshalHll writing the estimator's settings without its registers
MarshalHll_SettingsOnly(h) == [bytes |-> [h EXCEPT !.regs = {}]]

\* HLLWrapper.MarshalCBOR: ToBytes keeps the settings and the registers
MarshalHll(h) == [bytes |-> h]

\* HLLWrapper.UnmarshalCBOR: hll.FromBytes
UnmarshalHll(value) == value.bytes

Pair(key, value) == [tok |-> "pair", key |-> key, value |-> value]

\* cbor.Marshal(dataset): the fields with a cbor tag
Marshal(dataset) ==
    << [tok |-> "map", pairs |-> 6],
       Pair("version", [uint |-> dataset.Version]),
       Pair("date", MarshalTime(dataset.Date)),
       Pair("all_clients_hll", MarshalHll(dataset.AllClientsHll)),
       Pair("all_clients_count", [uint |-> dataset.AllClientsCount]),
       Pair("all_queries_count", [uint |-> dataset.AllQueriesCount]),
       Pair("domains",
            [map |-> [d \in DOMAIN dataset.Domains |->
                         [clients_hll   |-> MarshalHll(dataset.Domains[d].Hll),
                          clients_count |-> dataset.Domains[d].ClientsCount,
                          queries_count |-> dataset.Domains[d].QueriesCount]]]) >>

\* a byte that begins no data item (0xff)
BreakToken == [tok |-> "break"]

Field(pairs, key) == pairs[CHOOSE i \in 1..Len(pairs) : pairs[i].key = key].value

\* decoding into a MagnitudeDataset: unexported fields keep their zero values
UnmarshalDataset(pairs) ==
    [Version             |-> Field(pairs, "version").uint,
     Date                |-> UnmarshalTime(Field(pairs, "date")),
     AllClientsHll       |-> UnmarshalHll(Field(pairs, "all_clients_hll")),
     AllClientsCount     |-> Field(pairs, "all_clients_count").uint,
     AllQueriesCount     |-> Field(pairs, "all_queries_count").uint,
     Domains             |->
         [d \in DOMAIN Field(pairs, "domains").map |->
             [Hll             |-> UnmarshalHll(Field(pairs, "domains").map[d].clients_hll),
              ClientsCount    |-> Field(pairs, "domains").map[d].clients_count,
              QueriesCount    |-> Field(pairs, "domains").map[d].queries_count,
              extraAllClients |-> {}]],
     extraAllClients     |-> {},
     extraV6Clients      |-> {},
     extraAllDomains     |-> {},
     extraSourceFilename |-> <<>>]

\* cbor.UnmarshalFirst returns [this, remaining, err]: the first data item of
\* the buffer decoded, and the bytes after it
UnmarshalFirst(buffer) ==
    IF Len(buffer) = 0
    THEN [this |-> ZeroDataset, remaining |-> <<>>, err |-> [kind |-> "EOF"]]
    ELSE IF buffer[1].tok # "map"
    THEN [this |-> ZeroDataset, remaining |-> <<>>, err |-> [kind |-> "malformed"]]
    ELSE IF Len(buffer) < 1 + buffer[1].pairs
    THEN [this |-> ZeroDataset, remaining |-> <<>>, err |-> [kind |-> "unexpected EOF"]]
    ELSE [this      |-> UnmarshalDataset(SubSeq(buffer, 2, 1 + buffer[1].pairs)),
          remaining |-> SubSeq(buffer, 2 + buffer[1].pairs, Len(buffer)),
          err       |-> NoError]

---------------------------------------------------------------------------
(* Round trip of a collected dataset through the codec *)

\* the dataset written by WriteDNSMagFile, decoded again and finalised as
\* the loader does
WrittenAndLoaded(dataset) == finaliseStats(UnmarshalFirst(Marshal(dataset)).this)

\* dataset `back` has the statistics of dataset `original` and no debug sets
SameStatistics(original, back) ==
    /\ back.Version = original.Version
    /\ back.Date.day = original.Date.day
    /\ back.AllQueriesCount = original.AllQueriesCount
    /\ back.AllClientsCount = original.AllClientsCount
    /\ back.AllClientsHll = original.AllClientsHll
    /\ DOMAIN back.Domains = DOMAIN original.Domains
    /\ \A d \in DOMAIN original.Domains :
          /\ back.Domains[d].QueriesCount = original.Domains[d].QueriesCount
          /\ back.Domains[d].ClientsCount = original.Domains[d].ClientsCount
          /\ back.Domains[d].Hll = original.Domains[d].Hll
          /\ back.Domains[d].extraAllClients = {}
    /\ back.extraAllClients = {}
    /\ back.extraV6Clients = {}
    /\ back.extraAllDomains = {}

---------------------------------------------------------------------------
(* Dataset sequence *)

NewDatasetSequence(numDomains, date, forceDate) ==
    [numDomains |-> numDomains,
     Count      |-> 0,
     Result     |-> newDataset(date),
     forceDate  |-> forceDate]

\* addDataset taking the dataset as the result when the aggregation fails
FoldDataset_AdoptsOnError(s, dataset, agg) ==
    IF s.Count = 0
    THEN [seq |-> [s EXCEPT !.Result = dataset, !.Count = 1], err |-> NoError]
    ELSE IF agg.err # NoError
    THEN [seq |-> [s EXCEPT !.Result = dataset],
          err |-> [kind |-> "failed to aggregate datasets", cause |-> agg.err]]
    ELSE [seq |-> [s EXCEPT !.Result = Truncate(agg.ds, s.numDomains), !.Count = @ + 1],
          err |-> NoError]

\* addDataset from the Count test on, for the dataset with its date settled
FoldDataset(s, dataset, agg) ==
    IF s.Count = 0
    THEN [seq |-> [s EXCEPT !.Result = dataset, !.Count = 1], err |-> NoError]
    ELSE IF agg.err # NoError
    THEN [seq |-> s, err |-> [kind |-> "failed to aggregate datasets", cause |-> agg.err]]
    ELSE [seq |-> [s EXCEPT !.Result = Truncate(agg.ds, s.numDomains), !.Count = @ + 1],
          err |-> NoError]

\* addDataset after the forced date is applied
AddDated(s, dataset) ==
    FoldDataset(s, dataset, AggregateDatasets(<<s.Result, dataset>>))

\* addDataset without the override of the date
addDataset_NeverForces(s, dataset) == AddDated(s, dataset)

\* addDataset returns [seq, err]
addDataset(s, dataset) ==
    AddDated(s, IF /\ s.forceDate
                   /\ dataset.Date # Nil
                   /\ s.Result.Date # Nil
                   /\ DateString(dataset) # DateString(s.Result)
                THEN SetDate(dataset, s.Result.Date)
                ELSE dataset)

\* fmt.Sprintf(filenameFmt, seqNum) for a format ending in %d and seqNum < 10
Sprintf(filenameFmt, seqNum) == filenameFmt \o <<DigitSeq[seqNum + 1]>>

\* the format LoadDNSMagFile builds for a file named f: "f#%d"
FilenameFmt == <<"f", "#">>

\* buffer = append(buffer, readBuffer[:n]...) forgetting what was buffered
AppendRead_DropsPartial(buffer, bytes) == bytes

\* buffer = append(buffer, readBuffer[:n]...)
AppendRead(buffer, bytes) == buffer \o bytes

\* the branch for a failed decode emptying the buffer and reading on
UnmarshalFailed_DropsBuffer(st, readErr, cause) ==
    [st EXCEPT !.buffer = <<>>]

\* the branch of the decoding loop for a failed decode: an error at the end
\* of the input, else leave the loop to read more
UnmarshalFailed(st, readErr, cause) ==
    IF readErr = "EOF"
    THEN [st EXCEPT !.err = [kind |-> "failed to unmarshal CBOR", cause |-> cause]]
    ELSE st

\* the decoding loop; st is [seq, buffer, seqNum, err]
RECURSIVE DecodeLoop(_, _)
RECURSIVE Unmarshalled(_, _, _)
RECURSIVE Added(_, _, _, _)

\* after addDataset returned a
Added(st, readErr, remaining, a) ==
    IF a.err # NoError
    THEN [st EXCEPT !.seq = a.seq, !.seqNum = @ + 1, !.err = a.err]
    ELSE DecodeLoop([st EXCEPT !.seq = a.seq, !.seqNum = @ + 1, !.buffer = remaining],
                    readErr)

\* after cbor.UnmarshalFirst returned u
Unmarshalled(st, readErr, u) ==
    IF u.err # NoError
    THEN UnmarshalFailed(st, readErr, u.err)
    ELSE Added(st, readErr, u.remaining,
               addDataset(st.seq,
                          [finaliseStats(u.this) EXCEPT
                              !.extraSourceFilename = Sprintf(FilenameFmt, st.seqNum)]))

DecodeLoop(st, readErr) ==
    IF Len(st.buffer) = 0 THEN st
    ELSE Unmarshalled(st, readErr, UnmarshalFirst(st.buffer))

\* the reading loop going on whatever Read returned, until a decode fails
LoopExit_ReadsOn(readErr, d) ==
    IF d.err # NoError THEN [returns |-> TRUE, err |-> d.err]
    ELSE [returns |-> FALSE, err |-> NoError]

\* how one iteration of the reading loop ends, d being the decoding loop's
\* outcome: [returns, err]
LoopExit(readErr, d) ==
    IF d.err # NoError THEN [returns |-> TRUE, err |-> d.err]
    ELSE IF readErr = "EOF"
    THEN IF Len(d.buffer) > 0
         THEN [returns |-> TRUE, err |-> [kind |-> "remaining bytes in buffer"]]
         ELSE [returns |-> TRUE, err |-> NoError]
    ELSE IF readErr # "nil"
    THEN [returns |-> TRUE, err |-> [kind |-> "failed to read data"]]
    ELSE [returns |-> FALSE, err |-> NoError]

\* one iteration of the reading loop for a Read that returned bytes and
\* readErr: [seq, buffer, seqNum, err]
Iteration(s, buffer, seqNum, bytes, readErr) ==
    DecodeLoop([seq    |-> s,
                buffer |-> AppendRead(buffer, bytes),
                seqNum |-> seqNum,
                err    |-> NoError], readErr)

---------------------------------------------------------------------------
(* Inputs of the sequence reader *)

\* datasets encoded in one stream
MaxDatasets == 2

StreamDatasets ==
    { LoadedDataset(1, 1, <<>>, <<Rec(Com, <<4, 1, 1>>, 1)>>),
      LoadedDataset(1, 1, <<>>, <<Rec(Com, <<4, 2, 1>>, 2), Rec(Org, <<4, 1, 1>>, 1)>>),
      LoadedDataset(1, 2, <<>>, <<Rec(Org, <<4, 3, 1>>, 1)>>) }

DatasetLists == UNION { [1..n -> StreamDatasets] : n \in 0..MaxDatasets }

RECURSIVE MarshalAll(_)
MarshalAll(datasets) ==
    IF Len(datasets) = 0 THEN <<>>
    ELSE Marshal(Head(datasets)) \o MarshalAll(Tail(datasets))

\* what follows the last dataset: nothing, a byte that is no dataset, or a
\* dataset cut short
Tails ==
    { <<>>,
      <<BreakToken>>,
      SubSeq(Marshal(LoadedDataset(1, 1, <<>>, <<Rec(Com, <<4, 1, 1>>, 1)>>)), 1, 3) }

\* what Read returns beside the byte count
ReadErrors == {"nil", "EOF", "other"}

\* a new sequence, or one that has loaded a file with one dataset
InitSequences ==
    { NewDatasetSequence(numDomains, date, forceDate) :
        numDomains \in TopCounts, date \in {Nil} \cup GivenDates, forceDate \in BOOLEAN }
    \cup
    { addDataset(NewDatasetSequence(numDomains, Nil, FALSE),
                 LoadedDataset(1, 1, <<"e", "#", "1">>, <<Rec(Org, <<6, 1, 1>>, 1)>>)).seq :
        numDomains \in TopCounts }

---------------------------------------------------------------------------
(* Specification of a LoadDNSMagSequenceFromReader call: the reader hands  *)
(* over the stream in reads of any size.                                   *)

InitSeq ==
    /\ seq \in InitSequences
    /\ rd = [pc       |-> "idle",
             src      |-> <<>>,
             buffer   |-> <<>>,
             seqNum   |-> 1,
             eof      |-> FALSE,
             split    |-> FALSE,
             err      |-> NoError,
             datasets |-> <<>>,
             tail     |-> <<>>,
             seq0     |-> Nil]
    /\ col = Unused /\ colPc = "unused" /\ hist = Unused
    /\ aggIn = Unused /\ aggOut = Unused /\ tr = Unused
    /\ gdn = Unused /\ runs = Unused

\* the call begins: the reader's stream is some datasets and a tail
BeginLoad ==
    /\ rd.pc = "idle"
    /\ \E datasets \in DatasetLists, tail \in Tails :
          rd' = [rd EXCEPT !.pc       = "reading",
                           !.src      = MarshalAll(datasets) \o tail,
                           !.datasets = datasets,
                           !.tail     = tail,
                           !.seq0     = seq]
    /\ UNCHANGED <<col, colPc, hist, aggIn, aggOut, seq, tr, gdn, runs>>

\* the state after an iteration whose decoding loop ended as d
Iterated(n, readErr, d) ==
    /\ seq' = d.seq
    /\ rd' = [rd EXCEPT !.src    = SubSeq(@, n + 1, Len(@)),
                        !.buffer = d.buffer,
                        !.seqNum = d.seqNum,
                        !.eof    = readErr = "EOF",
                        !.split  = @ \/ (d.err = NoError /\ readErr = "nil"
                                            /\ Len(d.buffer) > 0),
                        !.err    = LoopExit(readErr, d).err,
                        !.pc     = IF LoopExit(readErr, d).returns
                                   THEN "returned" ELSE "reading"]

\* one iteration of the reading loop: Read returns the next n bytes, with
\* io.EOF no earlier than with the last of them
DoRead ==
    /\ rd.pc = "reading"
    /\ \E n \in 0..Len(rd.src), readErr \in ReadErrors :
          /\ readErr = "EOF" => n = Len(rd.src)
          /\ Iterated(n, readErr,
                      Iteration(seq, rd.buffer, rd.seqNum, SubSeq(rd.src, 1, n), readErr))
    /\ UNCHANGED <<col, colPc, hist, aggIn, aggOut, tr, gdn, runs>>

NextSeq == BeginLoad \/ DoRead

SpecSeq == InitSeq /\ [][NextSeq]_vars

---------------------------------------------------------------------------
(* Properties of the sequence reader *)

\* dataset number i of a stream as the reader hands it to addDataset
Loaded(dataset, i) ==
    [finaliseStats(UnmarshalDataset(Tail(Marshal(dataset)))) EXCEPT
        !.extraSourceFilename = Sprintf(FilenameFmt, i)]

\* addDataset for datasets[i..] in stream order, up to the first error
RECURSIVE FoldAll(_, _, _)
RECURSIVE FoldNext(_, _, _)
FoldNext(a, datasets, i) ==
    IF a.err # NoError THEN a ELSE FoldAll(a.seq, datasets, i + 1)

FoldAll(s, datasets, i) ==
    IF i > Len(datasets) THEN [seq |-> s, err |-> NoError]
    ELSE FoldNext(addDataset(s, Loaded(datasets[i], i)), datasets, i)

\* what the call leaves and returns when its last iteration's decoding loop
\* ended as d
CallResult(readErr, d) == [seq |-> d.seq, err |-> LoopExit(readErr, d).err]

\* the call when the whole stream arrives in one read, with io.EOF
OneRead(s, stream) == CallResult("EOF", Iteration(s, <<>>, 1, stream, "EOF"))

\* the call has returned, the stream was nothing but encoded datasets and no
\* Read failed
Delivered ==
    /\ rd.pc = "returned"
    /\ Len(rd.tail) = 0
    /\ rd.err.kind # "failed to read data"

\* C3 as stated: however the reader splits a stream of k encoded datasets,
\* Count increases by k and Result is what it is when the whole stream
\* arrives in one read.
C3_AnyDelivery_AsStated ==
    Delivered =>
        /\ seq.Count = rd.seq0.Count + Len(rd.datasets)
        /\ seq = OneRead(rd.seq0, MarshalAll(rd.datasets)).seq

\* C3 amended: however the reader splits a stream of k encoded datasets, the
\* sequence and the returned error are what they are when the whole stream
\* arrives in one read, and they are those of addDataset applied to the
\* datasets once each in stream order up to the first that addDataset
\* refuses; when it refuses none, the call succeeds and Count increases by k.
C3_AnyDelivery ==
    Delivered =>
        /\ seq = OneRead(rd.seq0, MarshalAll(rd.datasets)).seq
        /\ rd.err = OneRead(rd.seq0, MarshalAll(rd.datasets)).err
        /\ seq = FoldAll(rd.seq0, rd.datasets, 1).seq
        /\ rd.err = FoldAll(rd.seq0, rd.datasets, 1).err
        /\ rd.err = NoError =>
              /\ seq.Count = rd.seq0.Count + Len(rd.datasets)
              /\ rd.seqNum = Len(rd.datasets) + 1
        /\ Len(rd.buffer) = 0 \/ rd.err # NoError

\* two datasets arrived in reads that split a value (the buffer held a part
\* of one between two reads) and both were folded into an earlier result
C3_Witness ==
    /\ Delivered
    /\ rd.split
    /\ rd.err = NoError
    /\ Len(rd.datasets) = 2
    /\ rd.datasets[1] # rd.datasets[2]
    /\ rd.seq0.Count = 1
    /\ seq.Count = 3
    /\ seq.Result.AllQueriesCount = 5
    /\ seq.Result.AllClientsCount = 3

\* C4: the call returns success only if the reader reached the end of its
\* input and every byte was consumed as part of a complete dataset (the
\* stream was datasets and nothing else, nothing is left in the buffer, and
\* as many datasets were decoded as the stream holds); and when the input
\* ends with a non-empty buffer whose head does not decode, the call returns
\* an error.
C4_SuccessConsumesAll ==
    rd.pc = "returned" =>
        /\ rd.err = NoError =>
              /\ rd.eof
              /\ Len(rd.src) = 0
              /\ Len(rd.buffer) = 0
              /\ Len(rd.tail) = 0
              /\ rd.seqNum = Len(rd.datasets) + 1
        /\ (rd.eof /\ Len(rd.buffer) > 0 /\ UnmarshalFirst(rd.buffer).err # NoError) =>
              rd.err # NoError

\* the input ended after one dataset and a dataset cut short: the first was
\* folded and the call returned the decoding error
C4_Witness ==
    /\ rd.pc = "returned"
    /\ rd.eof
    /\ Len(rd.datasets) = 1
    /\ Len(rd.tail) = 3
    /\ Len(rd.buffer) = 3
    /\ rd.seqNum = 2
    /\ seq.Count = rd.seq0.Count + 1
    /\ rd.err.kind = "failed to unmarshal CBOR"

\* what addDataset must do, by the date rule, to sequence s for dataset d;
\* r is what it returned.  Before the first dataset the sequence has no
\* running result: the first dataset seeds it.
DateRule(s, d, r) ==
    IF s.forceDate
    THEN /\ r.err = NoError
         /\ r.seq.Count = s.Count + 1
         /\ r.seq.Result.Date = s.Result.Date
         /\ r.seq.Result =
               addDataset([s EXCEPT !.forceDate = FALSE],
                          [d EXCEPT !.Date = s.Result.Date]).seq.Result
    ELSE IF s.Count = 0
    THEN r.err = NoError /\ r.seq.Count = 1 /\ r.seq.Result = d
    ELSE IF d.Date.day # s.Result.Date.day
    THEN /\ r.seq = s
         /\ r.err = [kind  |-> "failed to aggregate datasets",
                     cause |-> [kind     |-> "date mismatch",
                                dataset  |-> d.extraSourceFilename,
                                has      |-> <<"date", d.Date.day>>,
                                expected |-> <<"date", s.Result.Date.day>>]]
    ELSE r.err = NoError /\ r.seq.Count = s.Count + 1

\* C17: without forceDate, adding a dataset whose day differs from the
\* running result's fails with a date-mismatch error and leaves the sequence
\* as it was; with forceDate, every added dataset (the first included) whose
\* day differs from the forced date is folded with the forced date in place
\* of its own, so that no addition fails on the date and the result's date is
\* the forced date throughout the call.
C17_ForceDate ==
    /\ \A dataset \in StreamDatasets :
          DateRule(seq, Loaded(dataset, 1), addDataset(seq, Loaded(dataset, 1)))
    /\ (rd.pc # "idle" /\ seq.forceDate) => seq.Result.Date = rd.seq0.Result.Date
    /\ (Delivered /\ seq.forceDate) => rd.err = NoError

\* a sequence forced to day 2 was given a dataset of day 1 and then one of
\* day 2: both were folded and the result is dated day 2
C17_Witness ==
    /\ Delivered
    /\ rd.seq0.forceDate
    /\ rd.seq0.Count = 0
    /\ rd.seq0.Result.Date.day = 2
    /\ Len(rd.datasets) = 2
    /\ rd.datasets[1].Date.day = 1
    /\ rd.datasets[2].Date.day = 2
    /\ rd.err = NoError
    /\ seq.Count = 2
    /\ seq.Result.Date.day = 2
    /\ seq.Result.AllQueriesCount = 2

\* the number of datasets addDataset accepted before the call returned: all
\* that were decoded, but for the one addDataset refused
Accepted ==
    IF rd.err.kind = "failed to aggregate datasets" THEN rd.seqNum - 2 ELSE rd.seqNum - 1

\* C28: when the call fails (addDataset refuses a dataset, the head of the
\* buffer does not decode at the end of the input, bytes are left over, or
\* Read fails), the sequence is exactly what the datasets decoded before the
\* failure made it: Count and Result are those of addDataset applied to them
\* in stream order, and the failing dataset contributes nothing.
C28_FailureKeepsEarlierDatasets ==
    (rd.pc = "returned" /\ rd.err # NoError) =>
        /\ Accepted \in 0..Len(rd.datasets)
        /\ seq.Count = rd.seq0.Count + Accepted
        /\ FoldAll(rd.seq0, SubSeq(rd.datasets, 1, Accepted), 1) =
               [seq |-> seq, err |-> NoError]

\* a new sequence was given a dataset of day 1 and then one of day 2 with
\* another domain: the second was refused, and the sequence holds the first
\* alone
C28_Witness ==
    /\ rd.pc = "returned"
    /\ rd.err.kind = "failed to aggregate datasets"
    /\ rd.seq0.Count = 0
    /\ Len(rd.datasets) = 2
    /\ rd.datasets[1].Date.day = 1
    /\ rd.datasets[2].Date.day = 2
    /\ rd.seqNum = 3
    /\ seq.Count = 1
    /\ seq.Result = Loaded(rd.datasets[1], 1)
    /\ DOMAIN seq.Result.Domains = { Com }

\* C29 as stated: for a sequence with numDomains above zero, Result holds at
\* most numDomains domains after every successfully added dataset, the first
\* one included.
C29_ResultWithinNumDomains ==
    (seq.numDomains > 0 /\ seq.Count > 0) =>
        Cardinality(DOMAIN seq.Result.Domains) <= seq.numDomains

---------------------------------------------------------------------------
(* Termination of a LoadDNSMagSequenceFromReader call.  The reader is one  *)
(* that eventually returns end-of-input or a read error: while the call is *)
(* reading, a Read that returns io.EOF or another error is always          *)
(* possible, and weak fairness makes one happen.                           *)

\* an iteration of the reading loop whose Read returns one of errors
ReadReturning(errors) ==
    /\ rd.pc = "reading"
    /\ \E n \in 0..Len(rd.src), readErr \in errors :
          /\ readErr = "EOF" => n = Len(rd.src)
          /\ Iterated(n, readErr,
                      Iteration(seq, rd.buffer, rd.seqNum, SubSeq(rd.src, 1, n), readErr))
    /\ UNCHANGED <<col, colPc, hist, aggIn, aggOut, tr, gdn, runs>>

\* an iteration whose Read returns end-of-input or a read error
DoLastRead == ReadReturning(ReadErrors \ {"nil"})

\* datasets encoded in one stream of a call checked for termination
MaxLiveDatasets == 1

\* the sequences the call is made on: a new one, and one that has loaded a
\* file with one dataset (no truncation, no forced date: neither has a part
\* in the loops)
LiveSequences ==
    { s \in InitSequences : s.numDomains = 0 /\ ~s.forceDate /\ s.Result.Date.day = 1 }

InitSeqLive ==
    /\ seq \in LiveSequences
    /\ rd = [pc       |-> "idle",
             src      |-> <<>>,
             buffer   |-> <<>>,
             seqNum   |-> 1,
             eof      |-> FALSE,
             split    |-> FALSE,
             err      |-> NoError,
             datasets |-> <<>>,
             tail     |-> <<>>,
             seq0     |-> Nil]
    /\ col = Unused /\ colPc = "unused" /\ hist = Unused
    /\ aggIn = Unused /\ aggOut = Unused /\ tr = Unused
    /\ gdn = Unused /\ runs = Unused

\* the call begins: the reader's stream is a few datasets and a tail
BeginLoadLive ==
    /\ rd.pc = "idle"
    /\ \E datasets \in UNION { [1..n -> StreamDatasets] : n \in 0..MaxLiveDatasets },
          tail \in Tails :
          rd' = [rd EXCEPT !.pc       = "reading",
                           !.src      = MarshalAll(datasets) \o tail,
                           !.datasets = datasets,
                           !.tail     = tail,
                           !.seq0     = seq]
    /\ UNCHANGED <<col, colPc, hist, aggIn, aggOut, seq, tr, gdn, runs>>

NextSeqLive == BeginLoadLive \/ DoRead

SpecSeqLive == InitSeqLive /\ [][NextSeqLive]_vars /\ WF_vars(DoLastRead)

\* every buffer the next Read can produce: a successful decode of its head
\* consumes at least one byte
DecodeConsumes ==
    \A n \in 0..Len(rd.src) :
        (/\ Len(AppendRead(rd.buffer, SubSeq(rd.src, 1, n))) > 0
         /\ UnmarshalFirst(AppendRead(rd.buffer, SubSeq(rd.src, 1, n))).err = NoError) =>
            Len(UnmarshalFirst(AppendRead(rd.buffer, SubSeq(rd.src, 1, n))).remaining)
                < Len(AppendRead(rd.buffer, SubSeq(rd.src, 1, n)))

\* C30: for a reader that eventually returns end-of-input or a read error
\* the call terminates: a successful decode consumes at least one byte of
\* the buffer, the reading loop is left at the first end-of-input or error
\* (the call is never reading once the source is exhausted or an error was
\* met), and every call that is reading returns in the end.
C30_LoadTerminates ==
    /\ [](rd.pc = "reading" => DecodeConsumes)
    /\ []((rd.eof \/ rd.err # NoError) => rd.pc = "returned")
    /\ (rd.pc = "reading") ~> (rd.pc = "returned")

\* a call on a sequence that held a dataset returned successfully at the end
\* of a stream of one dataset that arrived in several reads, one of which
\* left a part of the value in the buffer
C30_Witness ==
    /\ rd.pc = "returned"
    /\ rd.eof
    /\ rd.split
    /\ rd.err = NoError
    /\ rd.seq0.Count = 1
    /\ Len(rd.datasets) = 1
    /\ Len(rd.src) = 0
    /\ Len(rd.buffer) = 0
    /\ rd.seqNum = 2
    /\ seq.Count = 2

---------------------------------------------------------------------------
(* Inputs of getDomainName: names written as labels joined by dots, with   *)
(* or without a trailing dot.                                              *)

\* the most labels a name is written with
MaxLabels == 2

Letters(n) == [i \in 1..n |-> "a"]

Ace == <<"x","n","-","-">>

\* the labels names are made of: empty, too short, letters in either case,
\* with a digit, IDN ACE forms, and labels at and past the length limits
NameLabels ==
    { <<>>, <<"a">>, <<"a","b">>, <<"A","b">>, <<"a","1">>,
      Ace, Ace \o <<"a">>, Ace \o <<"-","1">>, Ace \o <<"a","_">>,
      Letters(63), Letters(64), Ace \o Letters(59), Ace \o Letters(60) }

LabelLists == UNION { [1..n -> NameLabels] : n \in 0..MaxLabels }

\* the name as the producer hands it over
Written(labels, dot) == Join(labels) \o (IF dot THEN <<".">> ELSE <<>>)

---------------------------------------------------------------------------
(* Specification of a getDomainName call *)

InitDomain ==
    /\ \E labels \in LabelLists, dot \in BOOLEAN, numLabels \in 0..MaxLabels :
          gdn = [labels    |-> labels,
                 dot       |-> dot,
                 name      |-> Written(labels, dot),
                 numLabels |-> numLabels,
                 out       |-> Nil]
    /\ col = Unused /\ colPc = "unused" /\ hist = Unused
    /\ aggIn = Unused /\ aggOut = Unused /\ seq = Unused /\ rd = Unused
    /\ tr = Unused /\ runs = Unused

DoGetDomainName ==
    /\ gdn.out = Nil
    /\ gdn' = [gdn EXCEPT !.out = getDomainName(gdn.name, gdn.numLabels)]
    /\ UNCHANGED <<col, colPc, hist, aggIn, aggOut, seq, rd, tr, runs>>

NextDomain == DoGetDomainName

SpecDomain == InitDomain /\ [][NextDomain]_vars

---------------------------------------------------------------------------
(* Properties of getDomainName *)

LowerLetters == SeqRange(LowerSeq)

\* 2-63 lowercase letters, or "xn--" and 1-59 of [a-z0-9-]
IsTld(label) ==
    \/ /\ Len(label) \in 2..63
       /\ SeqRange(label) \subseteq LowerLetters
    \/ /\ Len(label) - 4 \in 1..59
       /\ SubSeq(label, 1, 4) = Ace
       /\ SeqRange(SubSeq(label, 5, Len(label))) \subseteq
             LowerLetters \cup SeqRange(DigitSeq) \cup {"-"}

\* the labels of a name written as these labels, lowercased, once one
\* trailing dot is removed: without a dot of its own, a name whose last
\* label is empty ends in the dot before that label
LabelsOf(labels, dot) ==
    LET lower == [i \in 1..Len(labels) |-> ToLower(labels[i])]
    IN  IF ~dot /\ Len(lower) >= 2 /\ lower[Len(lower)] = <<>>
        THEN SubSeq(lower, 1, Len(lower) - 1)
        ELSE lower

\* what the normaliser must return for the name and numLabels
Normalised(name, labels, numLabels, out) ==
    IF name = <<>> \/ name = <<".">>
    THEN out = [name |-> <<".">>, err |-> NoError]
    ELSE IF Len(labels) < numLabels \/ ~IsTld(labels[Len(labels)])
    THEN out.err # NoError /\ out.name = <<>>
    ELSE /\ out.err = NoError
         /\ out.name = Join(SubSeq(labels, Len(labels) - numLabels + 1, Len(labels)))

\* C18: getDomainName(name, N) is a function of its arguments: the empty
\* name and "." give the root "."; any other name is lowercased, loses one
\* trailing dot and is split into labels; the call fails if there are fewer
\* than N labels or the last label is neither 2-63 lowercase letters nor
\* "xn--" followed by 1-59 of [a-z0-9-]; otherwise it returns the last N
\* labels joined by dots.
C18_GetDomainName ==
    gdn.out # Nil =>
        Normalised(gdn.name, LabelsOf(gdn.labels, gdn.dot), gdn.numLabels, gdn.out)

\* "a.Ab." with N = 2 gives "a.ab"
C18_Witness ==
    /\ gdn.out # Nil
    /\ gdn.name = <<"a", ".", "A", "b", ".">>
    /\ gdn.numLabels = 2
    /\ gdn.out = [name |-> <<"a", ".", "a", "b">>, err |-> NoError]

---------------------------------------------------------------------------
(* Two runs of a dataset over the same records, the second with each       *)
(* client address replaced by an address of the same /24 or /48.           *)

\* records per run
MaxRunRecords == 2

\* the networks (/24 or /48 prefixes) and the hosts within one
Networks == {1, 2}

Hosts == {1, 2}

Addresses == {4, 6} \X Networks \X Hosts

\* an address of the same family and prefix
SamePrefix(addr, host) == <<addr[1], addr[2], host>>

---------------------------------------------------------------------------
(* Specification of the two runs *)

InitRuns ==
    /\ \E verbose \in BOOLEAN :
          runs = [verbose |-> verbose,
                  a       |-> newDataset(Nil),
                  b       |-> newDataset(Nil),
                  n       |-> 0,
                  last    |-> Nil,
                  final   |-> FALSE]
    /\ col = Unused /\ colPc = "unused" /\ hist = Unused
    /\ aggIn = Unused /\ aggOut = Unused /\ seq = Unused /\ rd = Unused
    /\ tr = Unused /\ gdn = Unused

\* both runs after the record, for which updateStats returned a and b
BothUpdated(a, b, srcA, srcB) ==
    runs' = [runs EXCEPT !.a    = a.ds,
                         !.b    = b.ds,
                         !.n    = @ + 1,
                         !.last = [a |-> srcA, b |-> srcB]]

\* one record in both runs, from addr in the first and from an address of
\* the same prefix in the second
DoUpdateBoth ==
    /\ ~runs.final
    /\ runs.n < MaxRunRecords
    /\ \E rec \in Records, addr \in Addresses, host \in Hosts :
          BothUpdated(
              updateStats(runs.a, rec.domainStr, newIPAddress(addr),
                          rec.queryCount, runs.verbose),
              updateStats(runs.b, rec.domainStr, newIPAddress(SamePrefix(addr, host)),
                          rec.queryCount, runs.verbose),
              newIPAddress(addr), newIPAddress(SamePrefix(addr, host)))
    /\ UNCHANGED <<col, colPc, hist, aggIn, aggOut, seq, rd, tr, gdn>>

DoFinaliseBoth ==
    /\ ~runs.final
    /\ runs' = [runs EXCEPT !.a     = finaliseStats(@),
                            !.b     = finaliseStats(@),
                            !.last  = Nil,
                            !.final = TRUE]
    /\ UNCHANGED <<col, colPc, hist, aggIn, aggOut, seq, rd, tr, gdn>>

NextRuns == DoUpdateBoth \/ DoFinaliseBoth

SpecRuns == InitRuns /\ [][NextRuns]_vars

---------------------------------------------------------------------------
(* Properties of the address normaliser *)

\* C19: what is derived from a client address depends on its truncated form
\* only: two addresses of one family in one /24 (IPv4) or /48 (IPv6) have the
\* same truncated address, hash input and hash, and two runs that differ
\* only in such addresses are in the same dataset state (estimators,
\* counters, debug sets) after every record and after finaliseStats.
C19_OnlyTruncatedAddress ==
    /\ runs.a = runs.b
    /\ runs.last # Nil =>
          /\ runs.last.a.truncatedIP = runs.last.b.truncatedIP
          /\ runs.last.a.hashInput = runs.last.b.hashInput
          /\ runs.last.a.hash = runs.last.b.hash
    /\ \A addr \in Addresses, host \in Hosts :
          [newIPAddress(addr) EXCEPT !.ipAddress = Nil] =
              [newIPAddress(SamePrefix(addr, host)) EXCEPT !.ipAddress = Nil]

\* verbose runs of two records whose last came from two different addresses
\* of one IPv6 /48: both runs hold the same two clients
C19_Witness ==
    /\ runs.verbose
    /\ runs.n = 2
    /\ runs.last # Nil
    /\ runs.last.a.ipAddress = <<6, 2, 1>>
    /\ runs.last.b.ipAddress = <<6, 2, 2>>
    /\ runs.a.AllQueriesCount = 3
    /\ Cardinality(runs.a.extraAllClients) = 2
    /\ runs.b.extraV6Clients = { <<6, 2, 0>> }
    /\ Cardinality(runs.b.AllClientsHll.regs) = 2
    /\ DOMAIN runs.b.Domains = { <<"c","o","m">> }

=============================================================================
